---------------------------- MODULE Spec2Model ----------------------------
(***************************************************************************)
(* LFS (Local File Storage): the resumable transfer, chunk merge and       *)
(* checksum cache engine of storage/file_storage.go.                       *)
(*                                                                         *)
(* Files are sequences of bytes, names and headers are sequences of        *)
(* one-character strings, so that formatting (Sprintf, Itoa) and parsing   *)
(* (Split, Atoi, Glob) are computed the way the code computes them.        *)
(***************************************************************************)
EXTENDS Integers, Sequences, FiniteSets, Bags, TLC

(* ------------------------------ bounds -------------------------------- *)

\* longest byte stream one upload request carries
MaxDataLen == 2
\* largest single file the upload model lets the destination grow to
MaxFileLen == 3
\* DefaultBufferSize (4 MB in the source) scaled to the model's file sizes:
\* the bytes one Read of copyWithCancel returns at most
DefaultBufferSize == 2
\* most chunks one chunked upload declares
MaxChunks == 2
\* most background checksum goroutines alive at once
MaxJobs == 2
\* MD5ChunkSize (64 MB in the source) scaled: the bytes one Read of
\* calculateFileMD5Chunked returns at most
MD5ChunkSize == 2
\* the size (100 MB in the source) above which a file is hashed block by block,
\* scaled
LargeFileSize == 3
\* MD5MaxConcurrent: the capacity of md5Cache.semaphore
MD5MaxConcurrent == 3
\* the capacity of uploadSemaphore
MaxConcurrentUploads == 100
\* the capacity of downloadSemaphore
MaxConcurrentDownloads == 200
\* most callers parked on one channel
MaxParked == 2

\* most files one BatchUpload call is given
MaxBatch == 4
\* most tasks one Process call is given
MaxTasks == 3
\* workerCount of ConcurrentProcessor (runtime.NumCPU() * 2 in the source)
ProcWorkerCount == 2
\* the buffer of a client's send channel (256 in the source) scaled
SendBufferSize == 2
\* the buffer of the hub's broadcast channel (256 in the source) scaled
BroadcastBufferSize == 2
\* maxConcurrent of BatchUpload (10 in the source) scaled to the model's
\* batches
BatchMaxConcurrent == 2

\* the byte values of file contents
Bytes == {1, 2}

\* a file that does not exist
NoFile == <<-1>>

\* byte sequences of length 0..n
RECURSIVE SeqsUpTo(_)
SeqsUpTo(n) ==
    IF n = 0 THEN {<<>>}
    ELSE LET S == SeqsUpTo(n - 1)
         IN  S \cup {Append(s, b) : s \in {t \in S : Len(t) = n - 1}, b \in Bytes}

(* --------------------------- text helpers ----------------------------- *)

Digits == <<"0", "1", "2", "3", "4", "5", "6", "7", "8", "9">>

IsDigit(c) == \E i \in 1..10 : Digits[i] = c

DigitVal(c) == (CHOOSE i \in 1..10 : Digits[i] = c) - 1

\* the decimal digits of a non-negative integer
RECURSIVE NatDigits(_)
NatDigits(n) ==
    IF n < 10 THEN <<Digits[n + 1]>>
    ELSE NatDigits(n \div 10) \o <<Digits[(n % 10) + 1]>>

\* strconv.Itoa / strconv.FormatInt(n, 10) / fmt's %d
Itoa(n) == IF n < 0 THEN <<"-">> \o NatDigits(0 - n) ELSE NatDigits(n)

RECURSIVE DigitsVal(_)
DigitsVal(s) ==
    IF s = <<>> THEN 0
    ELSE 10 * DigitsVal(SubSeq(s, 1, Len(s) - 1)) + DigitVal(s[Len(s)])

\* strconv.Atoi / strconv.ParseInt(s, 10, 64): an optional sign followed by
\* at least one decimal digit; anything else is a syntax error
Atoi(s) ==
    LET signed == s # <<>> /\ s[1] \in {"+", "-"}
        body   == IF signed THEN Tail(s) ELSE s
    IN  IF body = <<>> \/ \E i \in 1..Len(body) : ~IsDigit(body[i])
        THEN [ok |-> FALSE, val |-> 0]
        ELSE [ok |-> TRUE,
              val |-> IF signed /\ s[1] = "-" THEN 0 - DigitsVal(body)
                      ELSE DigitsVal(body)]

HasPrefix(s, p) == Len(s) >= Len(p) /\ SubSeq(s, 1, Len(p)) = p

HasSuffix(s, p) == Len(s) >= Len(p) /\ SubSeq(s, Len(s) - Len(p) + 1, Len(s)) = p

\* strings.TrimPrefix
TrimPrefix(s, p) == IF HasPrefix(s, p) THEN SubSeq(s, Len(p) + 1, Len(s)) ELSE s

\* strings.Split(s, sep) for a one-character separator: always at least one part
RECURSIVE Split(_, _)
Split(s, sep) ==
    IF \A i \in 1..Len(s) : s[i] # sep THEN <<s>>
    ELSE LET k == CHOOSE i \in 1..Len(s) :
                      s[i] = sep /\ \A j \in 1..(i - 1) : s[j] # sep
         IN  <<SubSeq(s, 1, k - 1)>> \o Split(SubSeq(s, k + 1, Len(s)), sep)

BytesEq == <<"b", "y", "t", "e", "s", "=">>

\* the resume header a client sends to continue from offset off: "bytes=<off>-"
ResumeHeader(off) == BytesEq \o Itoa(off) \o <<"-">>

\* the range header "bytes=<start>-<end>"
RangeHeader(start, end) == BytesEq \o Itoa(start) \o <<"-">> \o Itoa(end)

(* ------------------------------ state --------------------------------- *)

VARIABLES
    dest,       \* SaveFile: the destination file, NoFile or its bytes
    saveLog,    \* SaveFile: the successful calls since the destination was fresh
    saveRet,    \* SaveFile: what the last call returned
    dlFile,     \* download: the stored file requests are served from
    resp,       \* download: the request last served and the response to it
    fs,         \* chunk upload: the staging directory and the destination file
    calls,      \* chunk upload: the SaveFileChunk call each caller is in
    files,      \* checksum: the files of the storage root, by path
    cache,      \* checksum: md5Cache.cache, by path
    sem,        \* checksum: the permits of md5Cache.semaphore that are held
    jobs,       \* checksum: the bag of background goroutines ListFiles started
    listers,    \* checksum: the ListFiles call each listing thread is in
    queriers,   \* checksum: the GetFileMD5 call each query thread is in
    completed,  \* checksum: the paths whose goroutine that ended last stored an MD5
    pools,      \* permit pools: the channel of each kind and the callers parked on it
    transfers,  \* transfers: the uploads and the downloads that are executing
    upload,     \* SaveFileWithTimeout: the call, its goroutine and errCh
    seen,       \* what the GetMD5Progress call of the behaviour returned
    copy,       \* copy loop: the copyWithCancel or OptimizedCopy call and its context
    mutex,      \* checksum cache: md5Cache.mutex and the method call of each thread
    batch,      \* BatchUpload: the call, its goroutines, semaphore and resultChan
    proc,       \* ConcurrentProcessor.Process: the call, its workers and channels
    hub         \* chat: the hub loop, its lock and client set, the clients

saveVars == <<dest, saveLog, saveRet>>

dlVars == <<dlFile, resp>>

chunkVars == <<fs, calls>>

md5Vars == <<files, cache, sem, jobs, listers, queriers, completed>>

\* the state of the parts added last
otherVars == <<copy, mutex, batch, proc, hub>>

optVars == <<pools, transfers, upload, seen, otherVars>>

\* what a step of the permit pools leaves alone
exceptPools == <<saveVars, dlVars, chunkVars, md5Vars, transfers, upload, seen, otherVars>>

\* what the start or the end of a transfer leaves alone
exceptTransfers == <<saveVars, dlVars, chunkVars, md5Vars, pools, upload, seen, otherVars>>

\* what a step of a copy loop leaves alone
exceptCopy == <<saveVars, dlVars, chunkVars, md5Vars, pools, transfers, upload, seen, mutex, batch,
               proc, hub>>

\* what a step of a method of MD5Cache leaves alone, the cache apart
exceptMutex == <<saveVars, dlVars, chunkVars, files, sem, jobs, listers, queriers, completed,
                pools, transfers, upload, seen, copy, batch, proc, hub>>

\* what a step of BatchUpload or of its goroutines leaves alone
exceptBatch == <<saveVars, dlVars, chunkVars, md5Vars, pools, transfers, upload, seen, copy,
                mutex, proc, hub>>

\* what a step of Process or of its workers leaves alone
exceptProc == <<saveVars, dlVars, chunkVars, md5Vars, pools, transfers, upload, seen, copy,
               mutex, batch, hub>>

\* what a step of the chat hub or of a chat client leaves alone
exceptHub == <<saveVars, dlVars, chunkVars, md5Vars, pools, transfers, upload, seen, copy,
              mutex, batch, proc>>

\* what a step of SaveFileWithTimeout or of its goroutine leaves alone, the
\* destination file apart
exceptUpload == <<saveLog, saveRet, dlVars, chunkVars, md5Vars, pools, transfers, seen,
                 otherVars>>

vars == <<dest, saveLog, saveRet, dlFile, resp, fs, calls,
          files, cache, sem, jobs, listers, queriers, completed, pools, transfers, upload, seen,
          copy, mutex, batch, proc, hub>>

(* ------------------- resumable single-file upload --------------------- *)

\* SaveFile's parse of the Range header: the start offset, or the parse error
SaveFileStart(rangeHeader) ==
    IF rangeHeader = <<>> THEN [ok |-> TRUE, val |-> 0]
    ELSE Atoi(Split(TrimPrefix(rangeHeader, BytesEq), "-")[1])

\* a write through a descriptor opened with O_APPEND: the bytes go to the end
\* of the file wherever Seek left the offset
AppendWrite(f, offset, data) == f \o data

\* SaveFileWrite with the destination opened by os.Create (O_TRUNC) instead
SaveFileWriteTruncating(f, start, data) == data

\* SaveFileWrite with the destination opened without O_APPEND: the bytes go
\* to the offset Seek left, over what is there (a hole reads as zeros)
SaveFileWriteSeeking(f, start, data) ==
    LET old == IF f = NoFile THEN <<>> ELSE f
        end == start + Len(data)
        n == IF Len(old) > end THEN Len(old) ELSE end
    IN  [i \in 1..n |-> IF i > start /\ i <= end THEN data[i - start]
                        ELSE IF i <= Len(old) THEN old[i] ELSE 0]

\* os.OpenFile(dest, O_CREATE|O_WRONLY|O_APPEND), Seek(start), io.CopyBuffer
SaveFileWrite(f, start, data) ==
    AppendWrite(IF f = NoFile THEN <<>> ELSE f, start, data)

\* SaveFile(storagePath, file, rangeHeader): the destination afterwards and
\* the error returned
SaveFileResult(f, data, rangeHeader) ==
    LET st == SaveFileStart(rangeHeader)
    IN  IF ~st.ok THEN [file |-> f, err |-> "syntax"]
        ELSE [file |-> SaveFileWrite(f, st.val, data), err |-> "nil"]

\* the headers upload requests carry: none, a resume offset, malformed ones
SaveHeaders ==
    {<<>>} \cup {ResumeHeader(k) : k \in 0..MaxFileLen}
           \cup {BytesEq \o <<"x", "-">>, BytesEq \o <<"-", "1">>}

SaveIdle ==
    /\ dest = NoFile
    /\ saveLog = <<>>
    /\ saveRet = "none"

SaveFile(data, rangeHeader) ==
    LET r == SaveFileResult(dest, data, rangeHeader)
    IN  /\ (IF dest = NoFile THEN 0 ELSE Len(dest)) + Len(data) <= MaxFileLen
        /\ dest' = r.file
        /\ saveRet' = r.err
        /\ saveLog' = IF r.err # "nil" THEN saveLog
                      ELSE IF Len(saveLog) < 2
                           THEN Append(saveLog, [data |-> data, hdr |-> rangeHeader])
                           ELSE <<[data |-> <<>>, hdr |-> <<>>],
                                  [data |-> <<>>, hdr |-> <<>>],
                                  [data |-> <<>>, hdr |-> <<>>]>>
        /\ UNCHANGED <<dlVars, chunkVars, md5Vars, optVars>>

(* --------------------- range and chunk download ----------------------- *)

Min(a, b) == IF a < b THEN a ELSE b

\* parseRangeHeader(rangeHeader): (start, end, err), or the index-out-of-range
\* panic of parts[1] when the separator is missing
parseRangeHeader(rangeHeader) ==
    LET eq == Split(rangeHeader, "=")
    IN  IF Len(eq) < 2 THEN [kind |-> "panic", start |-> 0, end |-> 0]
        ELSE LET rangeParts == Split(eq[2], "-")
                 start == Atoi(rangeParts[1])
             IN  IF ~start.ok THEN [kind |-> "err", start |-> 0, end |-> 0]
                 ELSE IF Len(rangeParts) < 2
                      THEN [kind |-> "panic", start |-> 0, end |-> 0]
                 ELSE IF rangeParts[2] = <<>>
                      THEN [kind |-> "err", start |-> 0, end |-> 0]
                 ELSE LET end == Atoi(rangeParts[2])
                      IN  IF ~end.ok THEN [kind |-> "err", start |-> 0, end |-> 0]
                          ELSE [kind |-> "ok", start |-> start.val, end |-> end.val]

\* the sinks a response is written to: a plain io.Writer takes every write; the
\* net/http response writer refuses, whole, the write that would pass the
\* Content-Length it was given (a negative one is dropped and not enforced)
SinkKinds == {"plain", "http"}

SinkAccepts(sink, declared, written, n) ==
    sink = "plain" \/ declared < 0 \/ written + n <= declared

\* the loop of copyWithCancel from file position pos, after `iter` iterations:
\* the cancellation check, one Read of at most DefaultBufferSize bytes, one Write.
\* cancel >= 0: the context is cancelled once `cancel` iterations are done
RECURSIVE copyLoop(_, _, _, _, _, _, _)
copyLoop(f, pos, sink, declared, cancel, iter, out) ==
    IF cancel >= 0 /\ iter >= cancel THEN [body |-> out, err |-> "canceled"]
    ELSE LET nr == IF pos < Len(f) THEN Min(DefaultBufferSize, Len(f) - pos) ELSE 0
         IN  IF nr = 0 THEN [body |-> out, err |-> "nil"]
             ELSE IF ~SinkAccepts(sink, declared, Len(out), nr)
                  THEN [body |-> out, err |-> "content_length"]
             ELSE copyLoop(f, pos + nr, sink, declared, cancel, iter + 1,
                           out \o SubSeq(f, pos + 1, pos + nr))

\* copyWithCancel(ctx, dst, src, size) with src positioned at start: the loop runs
\* to the end of the file; size is not read by the function's body
copyWithCancel(f, start, size, sink, declared, cancel) ==
    copyLoop(f, start, sink, declared, cancel, 0, <<>>)

NoResp ==
    [op |-> "none", hdr |-> <<>>, idx |-> 0, size |-> 0, sink |-> "plain",
     cancel |-> -1, status |-> 0, contentRange |-> <<>>, contentLength |-> <<>>,
     body |-> <<>>, err |-> "nil", opened |-> FALSE,
     handler |-> "none", errStatus |-> 0]

\* "bytes %d-%d/%d"
ContentRange(start, end, fileSize) ==
    <<"b", "y", "t", "e", "s", " ">> \o Itoa(start) \o <<"-">> \o Itoa(end)
        \o <<"/">> \o Itoa(fileSize)

\* the Content-Length the response writer enforces: the header's value when it
\* parses as a non-negative number, none otherwise
Declared(n) == IF n >= 0 THEN n ELSE -1

\* DownloadFile(c, storagePath, filename, rangeHeader). cancel = -2: the request
\* context is already cancelled when the handler checks it before the header
DownloadFileResult(f, rangeHeader, sink, cancel) ==
    LET req == [NoResp EXCEPT !.op = "file", !.hdr = rangeHeader,
                              !.sink = sink, !.cancel = cancel]
    IN  IF f = NoFile THEN [req EXCEPT !.err = "not_exist"]
        ELSE IF rangeHeader # <<>> THEN
            LET r == parseRangeHeader(rangeHeader)
                fileSize == Len(f)
                hdrs == [req EXCEPT
                            !.opened = TRUE,
                            !.contentRange = ContentRange(r.start, r.end, fileSize),
                            !.contentLength = Itoa(r.end - r.start + 1)]
            IN  IF r.kind = "panic" THEN [req EXCEPT !.err = "panic"]
                ELSE IF r.kind = "err" THEN [req EXCEPT !.err = "range"]
                ELSE IF cancel = -2 THEN [hdrs EXCEPT !.err = "canceled"]
                ELSE LET c == copyWithCancel(f, r.start, r.end - r.start + 1, sink,
                                             Declared(r.end - r.start + 1), cancel)
                     IN  [hdrs EXCEPT !.status = 206, !.body = c.body, !.err = c.err]
        ELSE IF cancel = -2 THEN [req EXCEPT !.err = "canceled"]
        ELSE LET c == copyWithCancel(f, 0, Len(f), sink, Len(f), cancel)
             IN  [req EXCEPT !.opened = TRUE,
                             !.contentLength = Itoa(Len(f)), !.status = 200,
                             !.body = c.body, !.err = c.err]

\* DownloadFileChunk(c, storagePath, filename, chunkIndex, chunkSize)
DownloadFileChunkResult(f, chunkIndex, chunkSize, sink, cancel) ==
    LET req == [NoResp EXCEPT !.op = "chunk", !.idx = chunkIndex, !.size = chunkSize,
                              !.sink = sink, !.cancel = cancel]
    IN  IF f = NoFile THEN [req EXCEPT !.err = "not_exist"]
        ELSE LET start == chunkIndex * chunkSize
                 fileSize == Len(f)
                 end == IF start + chunkSize - 1 >= fileSize THEN fileSize - 1
                        ELSE start + chunkSize - 1
                 hdrs == [req EXCEPT
                             !.opened = TRUE,
                             !.contentRange = ContentRange(start, end, fileSize),
                             !.contentLength = Itoa(end - start + 1)]
             IN  IF cancel = -2 THEN [hdrs EXCEPT !.err = "canceled"]
                 ELSE LET c == copyWithCancel(f, start, end - start + 1, sink,
                                              Declared(end - start + 1), cancel)
                      IN  [hdrs EXCEPT !.status = 206, !.body = c.body, !.err = c.err]

\* Range headers that are not of the form "bytes=<number>-<number>" or
\* "bytes=<number>-": a missing "=", a missing "-", bounds that are not numbers
MalformedHeaders ==
    {<<"b", "y", "t", "e", "s">>, BytesEq \o <<"1">>,
     BytesEq \o <<"x", "-", "1">>, BytesEq \o <<"0", "-", "x">>}

\* the Range headers download requests carry: none, well-formed windows, an
\* open end, and the malformed ones
DlHeaders ==
    {<<>>} \cup {RangeHeader(s, e) : s \in 0..MaxFileLen, e \in 0..MaxFileLen}
           \cup {ResumeHeader(s) : s \in 0..MaxFileLen}
           \cup MalformedHeaders

\* when the request context is cancelled: never (-1), before the handler's
\* first check (-2), or after that many iterations of the copy loop
DlCancels == {-2, -1} \cup 0..MaxFileLen

DlIdle ==
    /\ dlFile = NoFile
    /\ resp = NoResp

\* a response depends on no earlier request: a behaviour serves one request
DownloadFile(rangeHeader, sink, cancel) ==
    /\ resp = NoResp
    /\ resp' = DownloadFileResult(dlFile, rangeHeader, sink, cancel)
    /\ UNCHANGED <<dlFile, saveVars, chunkVars, md5Vars, optVars>>

DownloadFileChunk(chunkIndex, chunkSize, sink, cancel) ==
    /\ resp = NoResp
    /\ resp' = DownloadFileChunkResult(dlFile, chunkIndex, chunkSize, sink, cancel)
    /\ UNCHANGED <<dlFile, saveVars, chunkVars, md5Vars, optVars>>

\* c.Writer.Written(): gin's writer sends the header with the first Write it
\* is asked for (WriteHeader only records the status)
Written(r) == r.body # <<>> \/ r.err = "content_length"

\* c.Request.Context().Err() != nil when a handler looks at it after the
\* download has returned
CtxErr(r) == r.cancel # -1

\* the handlers' `if err != nil` block: nothing when the request context is
\* cancelled, c.JSON(http.StatusNotFound, ...) when no header was written
HandleError(r) ==
    IF r.err = "nil" THEN r
    ELSE IF CtxErr(r) THEN r
    ELSE IF ~Written(r) THEN [r EXCEPT !.errStatus = 404]
    ELSE r

\* gin.Recovery(), installed by setupRoutes: a panic of the handler is answered
\* with c.AbortWithStatus(http.StatusInternalServerError)
Recovery(r) == [r EXCEPT !.errStatus = 500]

\* a handler once the download it called has ended
Handled(r, name) ==
    [(IF r.err = "panic" THEN Recovery(r) ELSE HandleError(r))
        EXCEPT !.handler = name]

\* the early return of the route handlers when the request context is cancelled
NotServed(r, name) == [r EXCEPT !.handler = name]

\* FileHandlers.DownloadFile(c)
FileHandlersDownloadFile(rangeHeader, cancel) ==
    /\ resp = NoResp
    /\ resp' = Handled(DownloadFileResult(dlFile, rangeHeader, "http", cancel),
                       "FileHandlers")
    /\ UNCHANGED <<dlFile, saveVars, chunkVars, md5Vars, optVars>>

\* FileHandlers.DownloadChunk(c), chunkIndex and chunkSize parsed
FileHandlersDownloadChunk(chunkIndex, chunkSize, cancel) ==
    /\ resp = NoResp
    /\ resp' = Handled(DownloadFileChunkResult(dlFile, chunkIndex, chunkSize,
                                               "http", cancel), "FileHandlers")
    /\ UNCHANGED <<dlFile, saveVars, chunkVars, md5Vars, optVars>>

\* downloadFileHandler(cfg)
downloadFileHandler(rangeHeader, cancel) ==
    /\ resp = NoResp
    /\ resp' = IF cancel = -2
               THEN NotServed([NoResp EXCEPT !.op = "file", !.hdr = rangeHeader,
                                             !.sink = "http", !.cancel = cancel],
                              "routes")
               ELSE Handled(DownloadFileResult(dlFile, rangeHeader, "http", cancel),
                            "routes")
    /\ UNCHANGED <<dlFile, saveVars, chunkVars, md5Vars, optVars>>

\* downloadChunkHandler(cfg), chunkIndex and chunkSize parsed
downloadChunkHandler(chunkIndex, chunkSize, cancel) ==
    /\ resp = NoResp
    /\ resp' = IF cancel = -2
               THEN NotServed([NoResp EXCEPT !.op = "chunk", !.idx = chunkIndex,
                                             !.size = chunkSize, !.sink = "http",
                                             !.cancel = cancel], "routes")
               ELSE Handled(DownloadFileChunkResult(dlFile, chunkIndex, chunkSize,
                                                    "http", cancel), "routes")
    /\ UNCHANGED <<dlFile, saveVars, chunkVars, md5Vars, optVars>>

(* ----------------------- chunked upload and merge --------------------- *)

\* the file name of the chunked uploads: one name, with an underscore and a
\* digit of its own so that the chunk-file pattern has something to confuse
FileName == <<"a", "_", "1">>

\* the threads that upload chunks of FileName
Callers == {"a", "b"}

\* the bytes one chunk request carries
ChunkData == {<<1>>, <<2>>}

\* hex.EncodeToString(md5.Sum(content)): a collision-free digest, never the
\* empty string
Digest(content) == <<0>> \o content

\* fmt.Sprintf("%s_%d", chunkInfo.FileName, chunkInfo.ChunkIndex)
ChunkName(index) == FileName \o <<"_">> \o Itoa(index)

\* the byte order of the characters that occur in chunk-file names
Alphabet == <<"-", "0", "1", "2", "3", "4", "5", "6", "7", "8", "9", "_", "a">>

CharRank(c) == CHOOSE i \in 1..Len(Alphabet) : Alphabet[i] = c

\* s sorts before t (sort.Strings, which orders filepath.Glob's matches)
RECURSIVE LexLess(_, _)
LexLess(s, t) ==
    IF t = <<>> THEN FALSE
    ELSE IF s = <<>> THEN TRUE
    ELSE IF s[1] # t[1] THEN CharRank(s[1]) < CharRank(t[1])
    ELSE LexLess(Tail(s), Tail(t))

\* GlobMatches with the pattern "*_<i>*", which does not anchor the index at
\* the end of the name
GlobMatchesUnanchored(chunks, i) ==
    {e.name : e \in {x \in chunks :
        \E k \in 0..Len(x.name) :
            HasSuffix(SubSeq(x.name, 1, k), <<"_">> \o Itoa(i))}}

\* the file names of the staging directory that match the pattern "*_<i>"
GlobMatches(chunks, i) ==
    {e.name : e \in {x \in chunks : HasSuffix(x.name, <<"_">> \o Itoa(i))}}

\* filepath.Glob(chunkDir/"*_<i>"): the matches, and matches[0]
Glob(chunks, i) ==
    LET m == GlobMatches(chunks, i)
    IN  [found |-> m # {},
         first |-> IF m = {} THEN <<>>
                   ELSE CHOOSE n \in m : \A o \in m \ {n} : LexLess(n, o)]

ChunkBytes(chunks, name) == (CHOOSE e \in chunks : e.name = name).data

\* os.Create(chunkPath) and the copy of the request's bytes into it
WriteChunk(chunks, name, data) ==
    {e \in chunks : e.name # name} \cup {[name |-> name, data |-> data]}

\* a write of data at offset off through a descriptor opened without O_APPEND:
\* a gap between the end of the file and off reads as zero bytes
WriteAt(f, off, data) ==
    [k \in 1..(IF off + Len(data) > Len(f) THEN off + Len(data) ELSE Len(f)) |->
        IF k > off /\ k <= off + Len(data) THEN data[k - off]
        ELSE IF k <= Len(f) THEN f[k] ELSE 0]

\* the staging directory root/chunks/FileName and the destination root/FileName.
\* open: the callers whose target descriptor refers to the file the name
\* root/FileName now leads to (writes through a descriptor of a removed file
\* reach no file that can be opened again)
EmptyFs == [dir |-> FALSE, chunks |-> {}, dest |-> NoFile, open |-> {}]

\* a caller that is in no call. missing: the index the "chunk not found"
\* error names; merged: whether the call entered mergeFileChunks
NoCall ==
    [pc |-> "done", index |-> 0, total |-> 0, md5 |-> <<>>, data |-> <<>>,
     i |-> 0, off |-> 0, sum |-> <<>>, ret |-> "none", had |-> FALSE,
     expect |-> <<>>, fresh |-> FALSE, missing |-> -1, merged |-> FALSE]

\* the chunks 0..n-1 of the staging directory, each by its exact name, in
\* ascending order (what a complete upload is expected to merge to)
RECURSIVE ExactConcat(_, _)
ExactConcat(chunks, n) ==
    IF n = 0 THEN <<>>
    ELSE ExactConcat(chunks, n - 1) \o ChunkBytes(chunks, ChunkName(n - 1))

HasExact(chunks, n) ==
    \A k \in 0..(n - 1) : \E e \in chunks : e.name = ChunkName(k)

\* the entry of SaveFileChunk(storagePath, chunkInfo, file)
BeginCall(f, index, total, md5, data) ==
    [NoCall EXCEPT !.pc = "mkdir", !.index = index, !.total = total, !.md5 = md5,
                   !.data = data, !.ret = "running",
                   !.had = HasExact(f.chunks, total - 1),
                   !.expect = IF HasExact(f.chunks, total - 1)
                              THEN ExactConcat(f.chunks, total - 1) \o data
                              ELSE <<>>]

\* the return of SaveFileChunk: the call's working values are dropped
Return(c, ret) ==
    [c EXCEPT !.pc = "done", !.ret = ret, !.data = <<>>, !.i = 0, !.off = 0,
              !.fresh = TRUE]

\* the next index mergeFileChunks appends, or the end of its loop
MergeNext(c, i) ==
    [c EXCEPT !.i = i, !.pc = IF i < c.total THEN "merge" ELSE "cleanup"]

\* chunkInfo.ChunkIndex == chunkInfo.TotalChunk-1 with every index taken for
\* the last one
AnyChunkIsLast(c) == TRUE

\* chunkInfo.ChunkIndex == chunkInfo.TotalChunk-1
IsLastChunk(c) == c.index = c.total - 1

\* len(matches) == 0 passed over: the merge goes on with the next index
ChunkNotFoundIgnored(f, id, c) == [fs |-> f, c |-> MergeNext(c, c.i + 1)]

\* ChunkNotFound with the staging directory deleted on the way out
ChunkNotFoundCleaning(f, id, c) ==
    [fs |-> [f EXCEPT !.open = f.open \ {id}, !.dir = FALSE, !.chunks = {}],
     c  |-> [Return(c, "chunk_not_found") EXCEPT !.missing = c.i]]

\* mergeFileChunks, len(matches) == 0: the error "chunk not found: chunk <i>",
\* the deferred target.Close, and SaveFileChunk returns the error
ChunkNotFound(f, id, c) ==
    [fs |-> [f EXCEPT !.open = f.open \ {id}],
     c  |-> [Return(c, "chunk_not_found") EXCEPT !.missing = c.i]]

\* a merge that leaves the staging directory in place
RemoveAllSkipped(f) == f

\* os.RemoveAll(chunkDir): the staging directory and every chunk file in it
RemoveAll(f) == [f EXCEPT !.dir = FALSE, !.chunks = {}]

\* one step of SaveFileChunk by caller id, from the call's position c.pc
ChunkStep(f, id, c) ==
    CASE c.pc = "mkdir" ->
            \* os.MkdirAll(chunkDir)
            [fs |-> [f EXCEPT !.dir = TRUE], c |-> [c EXCEPT !.pc = "write"]]
      [] c.pc = "write" ->
            \* os.Create(chunkPath), io.CopyBuffer; the test for the last index
            IF ~f.dir THEN [fs |-> f, c |-> Return(c, "io")]
            ELSE [fs |-> [f EXCEPT !.chunks =
                                WriteChunk(f.chunks, ChunkName(c.index), c.data)],
                  c  |-> IF IsLastChunk(c) THEN [c EXCEPT !.pc = "create"]
                         ELSE Return(c, "nil")]
      [] c.pc = "create" ->
            \* mergeFileChunks: os.Create(targetFile) truncates or creates
            [fs |-> [f EXCEPT !.dest = <<>>,
                              !.open = IF f.dest = NoFile THEN {id}
                                       ELSE f.open \cup {id}],
             c  |-> MergeNext([c EXCEPT !.off = 0, !.merged = TRUE], 0)]
      [] c.pc = "merge" ->
            \* mergeFileChunks: Glob, Open(matches[0]), CopyBuffer for index c.i
            LET g == Glob(IF f.dir THEN f.chunks ELSE {}, c.i)
                bytes == ChunkBytes(f.chunks, g.first)
            IN  IF ~g.found
                THEN ChunkNotFound(f, id, c)
                ELSE [fs |-> IF id \in f.open
                             THEN [f EXCEPT !.dest = WriteAt(f.dest, c.off, bytes)]
                             ELSE f,
                      c  |-> MergeNext([c EXCEPT !.off = c.off + Len(bytes)],
                                       c.i + 1)]
      [] c.pc = "cleanup" ->
            \* mergeFileChunks: os.RemoveAll(chunkDir), the deferred target.Close
            [fs |-> [RemoveAll(f) EXCEPT !.open = f.open \ {id}],
             c  |-> [c EXCEPT !.pc = "md5"]]
      [] c.pc = "md5" ->
            \* calculateFileMD5(root/FileName)
            IF f.dest = NoFile THEN [fs |-> f, c |-> Return(c, "io")]
            ELSE [fs |-> f, c |-> [c EXCEPT !.pc = "check", !.sum = Digest(f.dest)]]
      [] c.pc = "check" ->
            \* the comparison with chunkInfo.MD5, os.Remove on a mismatch
            IF c.sum # c.md5
            THEN [fs |-> [f EXCEPT !.dest = NoFile, !.open = {}],
                  c  |-> Return(c, "integrity")]
            ELSE [fs |-> f, c |-> Return(c, "nil")]

\* the other callers once a step was taken: a call that has returned keeps its
\* result only in the state it returned into
Settle(c) == IF c.pc = "done" THEN NoCall ELSE c

\* SaveFileChunk run from its entry to its return with no other thread running
RECURSIVE RunCall(_, _, _)
RunCall(f, id, c) ==
    IF c.pc = "done" THEN [fs |-> f, c |-> c]
    ELSE LET r == ChunkStep(f, id, c) IN RunCall(r.fs, id, r.c)

\* the checksums a chunk request declares: the one of the content the staged
\* chunks and its own bytes make up, and one that no merged content has
DeclaredMD5s(f, total, data) ==
    {Digest(IF HasExact(f.chunks, total - 1)
            THEN ExactConcat(f.chunks, total - 1) \o data
            ELSE data),
     Digest(<<>>)}

ChunkIdle ==
    /\ fs = EmptyFs
    /\ calls = [id \in Callers |-> NoCall]

\* a whole SaveFileChunk call by one caller, no other call running
SaveFileChunk(id, index, total, md5, data) ==
    LET r == RunCall(fs, id, BeginCall(fs, index, total, md5, data))
    IN  /\ fs' = r.fs
        /\ calls' = [x \in Callers |-> IF x = id THEN r.c
                                       ELSE Settle(calls[x])]
        /\ UNCHANGED <<saveVars, dlVars, md5Vars, optVars>>

\* the requests of the concurrent uploads: the content <<1, 2>> in two chunks,
\* its last chunk once more with the checksum of another content, and the
\* content <<2>> in one chunk
ConcurrentRequests ==
    {[index |-> 0, total |-> 2, md5 |-> Digest(<<1, 2>>), data |-> <<1>>],
     [index |-> 1, total |-> 2, md5 |-> Digest(<<1, 2>>), data |-> <<2>>],
     [index |-> 1, total |-> 2, md5 |-> Digest(<<1, 1>>), data |-> <<2>>],
     [index |-> 0, total |-> 1, md5 |-> Digest(<<2>>), data |-> <<2>>]}

\* a caller enters SaveFileChunk
ChunkCall(id, q) ==
    /\ calls[id].pc = "done"
    /\ calls' = [x \in Callers |->
                    IF x = id THEN BeginCall(fs, q.index, q.total, q.md5, q.data)
                    ELSE Settle(calls[x])]
    /\ UNCHANGED <<fs, saveVars, dlVars, md5Vars, optVars>>

\* a caller takes the next step of its call
ChunkAdvance(id) ==
    /\ calls[id].pc # "done"
    /\ LET r == ChunkStep(fs, id, calls[id])
       IN  /\ fs' = r.fs
           /\ calls' = [x \in Callers |-> IF x = id THEN r.c
                                          ELSE Settle(calls[x])]
    /\ UNCHANGED <<saveVars, dlVars, md5Vars, optVars>>

(* ---------------------------- checksum cache -------------------------- *)

\* the files of the storage root, in the order os.ReadDir returns them
PathSeq == <<"p", "q">>

Paths == {PathSeq[k] : k \in 1..Len(PathSeq)}

\* the threads that call ListFiles
Listers == {"l", "m"}

\* the threads that call GetFileMD5
Queriers == {"w", "x", "y", "z"}

\* the empty MD5 string
NoMD5 == <<>>

\* no entry for the path in md5Cache.cache
NoEntry ==
    [exists |-> FALSE, MD5 |-> NoMD5, ModTime |-> 0, Size |-> 0,
     Calculated |-> FALSE, Calculating |-> FALSE, Progress |-> <<0, 1>>,
     Error |-> ""]

\* MD5Cache.GetMD5FromCache(filePath, modTime, size)
GetMD5FromCache(mc, filePath, modTime, size) ==
    LET entry == mc[filePath]
    IN  IF ~entry.exists THEN [md5 |-> NoMD5, ok |-> FALSE]
        ELSE IF entry.ModTime # modTime \/ entry.Size # size
             THEN [md5 |-> NoMD5, ok |-> FALSE]
        ELSE [md5 |-> entry.MD5, ok |-> entry.Calculated]

\* SetMD5ToCache that stores the MD5 and leaves the entry unmarked
SetMD5ToCacheUnmarked(mc, filePath, md5, modTime, size) ==
    [mc EXCEPT ![filePath] =
        [NoEntry EXCEPT !.exists = TRUE, !.MD5 = md5, !.ModTime = modTime,
                        !.Size = size]]

\* MD5Cache.SetMD5ToCache(filePath, md5, modTime, size)
SetMD5ToCache(mc, filePath, md5, modTime, size) ==
    [mc EXCEPT ![filePath] =
        [NoEntry EXCEPT !.exists = TRUE, !.MD5 = md5, !.ModTime = modTime,
                        !.Size = size, !.Calculated = TRUE, !.Calculating = FALSE]]

\* MD5Cache.SetCalculating(filePath, modTime, size)
SetCalculating(mc, filePath, modTime, size) ==
    [mc EXCEPT ![filePath] =
        [NoEntry EXCEPT !.exists = TRUE, !.ModTime = modTime, !.Size = size,
                        !.Calculated = FALSE, !.Calculating = TRUE,
                        !.Progress = <<0, 1>>]]

\* MD5Cache.UpdateProgress(filePath, progress); a progress is the fraction
\* <<numerator, denominator>>
UpdateProgress(mc, filePath, progress) ==
    IF mc[filePath].exists THEN [mc EXCEPT ![filePath].Progress = progress] ELSE mc

\* SetError that records the error and leaves Calculating as it is
SetErrorStillCalculating(mc, filePath, err) ==
    IF mc[filePath].exists THEN [mc EXCEPT ![filePath].Error = err] ELSE mc

\* MD5Cache.SetError(filePath, err)
SetError(mc, filePath, err) ==
    IF mc[filePath].exists
    THEN [mc EXCEPT ![filePath].Calculating = FALSE, ![filePath].Error = err]
    ELSE mc

\* MD5Cache.GetProgress(filePath)
GetProgress(mc, filePath) ==
    LET entry == mc[filePath]
    IN  IF ~entry.exists THEN [progress |-> <<0, 1>>, calculating |-> FALSE, error |-> ""]
        ELSE [progress |-> entry.Progress, calculating |-> entry.Calculating,
              error |-> entry.Error]

\* os.Stat: the fingerprint of a file
ModTimeOf(file) == file.mt

SizeOf(file) == Len(file.data)

\* a background goroutine; pc: "wait" for a permit, "hash" the file, "release"
\* the permit
NoJob ==
    [pc |-> "wait", path |-> "", modTime |-> 0, size |-> 0, fileSize |-> 0,
     hashed |-> <<>>]

\* a goroutine whose work is done and whose deferred release is still to run
Releasing == [NoJob EXCEPT !.pc = "release"]

\* a thread that is in no ListFiles call; out: the MD5 field of each file of
\* the listing returned last; after: the paths whose background computation
\* had completed when the call was made
NoList ==
    [pc |-> "done", k |-> 0, modTime |-> 0, size |-> 0,
     out |-> [f \in Paths |-> NoMD5], after |-> {}, fresh |-> FALSE]

\* a thread that is in no GetFileMD5 call
NoQuery ==
    [pc |-> "done", path |-> "", modTime |-> 0, size |-> 0, status |-> "none",
     md5 |-> NoMD5, progress |-> <<0, 1>>, bg |-> FALSE, fresh |-> FALSE]

\* the goroutines of a bag that are in the set some, counted with their copies
CountJobs(js, some) ==
    BagCardinality([j \in BagToSet(js) \cap some |-> js[j]])

\* a goroutine that holds a permit and has not finished hashing its file
JobIsHashing(j) == j.pc = "hash"

\* the background goroutines that are hashing path
JobsHashing(path) ==
    CountJobs(jobs, {j \in BagToSet(jobs) : JobIsHashing(j) /\ j.path = path})

\* the background goroutines of path that wait for a permit or are hashing
JobsPending(path) ==
    CountJobs(jobs, {j \in BagToSet(jobs) : j.pc \in {"wait", "hash"} /\ j.path = path})

\* the paths whose background computation has completed: the goroutine that
\* ended last stored an MD5 for the path and none is waiting or hashing
Completed == {f \in completed : JobsPending(f) = 0}

\* the GetFileMD5 calls that are computing the hash of path themselves
QueriesHashing(path) ==
    Cardinality({t \in Queriers : queriers[t].pc = "hash" /\ queriers[t].path = path})

\* the checksum computations in flight for path
Hashing(path) == JobsHashing(path) + QueriesHashing(path)

\* calls that have returned keep their result only in the state they returned
\* into
SettleLists(ls) == [t \in Listers |-> IF ls[t].pc = "done" THEN NoList ELSE ls[t]]

SettleQueries(qs) == [t \in Queriers |-> IF qs[t].pc = "done" THEN NoQuery ELSE qs[t]]

\* the files of the storage root: a small one and one above LargeFileSize
StoredFiles ==
    [f \in Paths |->
        IF f = "p" THEN [data |-> <<1>>, mt |-> 1]
        ELSE [data |-> [k \in 1..(LargeFileSize + 1) |-> 1 + (k % 2)], mt |-> 1]]

Md5Init ==
    /\ files = StoredFiles
    /\ cache = [f \in Paths |-> NoEntry]
    /\ sem = 0
    /\ jobs = EmptyBag
    /\ listers = [t \in Listers |-> NoList]
    /\ queriers = [t \in Queriers |-> NoQuery]
    /\ completed = {}

(* ListFiles *)

\* the loop of ListFiles moves to the next directory entry (entry.Info() gives
\* its fingerprint), or returns
ListNext(l, fl, md5sum) ==
    LET out == [l.out EXCEPT ![PathSeq[l.k]] = md5sum]
    IN  IF l.k < Len(PathSeq)
        THEN [l EXCEPT !.pc = "get", !.k = l.k + 1, !.out = out,
                       !.modTime = ModTimeOf(fl[PathSeq[l.k + 1]]),
                       !.size = SizeOf(fl[PathSeq[l.k + 1]])]
        ELSE [l EXCEPT !.pc = "done", !.out = out, !.fresh = TRUE]

\* the goroutine of ListFiles without the send on md5Cache.semaphore: it
\* hashes from the start
SpawnJobUngated(js, filePath, modTime, size) ==
    js (+) SetToBag({[NoJob EXCEPT !.pc = "hash", !.path = filePath,
                                   !.modTime = modTime, !.size = size,
                                   !.fileSize = size]})

\* the goroutine ListFiles starts: it waits for a permit first
SpawnJob(js, filePath, modTime, size) ==
    js (+) SetToBag({[NoJob EXCEPT !.path = filePath, !.modTime = modTime,
                                   !.size = size]})

\* what ListFiles waits for before a step: nothing
ListReady(l, mc, permits) == TRUE

\* one step of ListFiles from position l.pc: the cache, the goroutines and the
\* call afterwards
ListStep(l, fl, mc, js) ==
    LET filePath == PathSeq[l.k]
    IN  CASE l.pc = "get" ->
                \* md5Cache.GetMD5FromCache(filePath, info.ModTime(), info.Size())
                LET r == GetMD5FromCache(mc, filePath, l.modTime, l.size)
                IN  [cache |-> mc, jobs |-> js,
                     l |-> IF r.ok THEN ListNext(l, fl, r.md5)
                           ELSE [l EXCEPT !.pc = "progress"]]
          [] l.pc = "progress" ->
                \* md5Cache.GetProgress(filePath)
                [cache |-> mc, jobs |-> js,
                 l |-> IF GetProgress(mc, filePath).calculating
                       THEN ListNext(l, fl, NoMD5)
                       ELSE [l EXCEPT !.pc = "set"]]
          [] l.pc = "set" ->
                \* md5Cache.SetCalculating and the go statement
                [cache |-> SetCalculating(mc, filePath, l.modTime, l.size),
                 jobs |-> SpawnJob(js, filePath, l.modTime, l.size),
                 l |-> ListNext(l, fl, NoMD5)]

\* a thread enters ListFiles: os.ReadDir, and entry.Info() of the first entry
ListFiles(t) ==
    /\ listers[t].pc = "done"
    /\ listers' = [SettleLists(listers) EXCEPT ![t] =
            [NoList EXCEPT !.pc = "get", !.k = 1,
                           !.modTime = ModTimeOf(files[PathSeq[1]]),
                           !.size = SizeOf(files[PathSeq[1]]),
                           !.after = Completed]]
    /\ queriers' = SettleQueries(queriers)
    /\ UNCHANGED <<files, cache, sem, jobs, completed, saveVars, dlVars, chunkVars, optVars>>

\* a thread takes the next step of its ListFiles call (the model keeps at most
\* MaxJobs goroutines: a step that starts one more is left out)
ListAdvance(t) ==
    /\ listers[t].pc # "done"
    /\ ListReady(listers[t], cache, sem)
    /\ listers[t].pc = "set" => BagCardinality(jobs) < MaxJobs
    /\ LET r == ListStep(listers[t], files, cache, jobs)
       IN  /\ cache' = r.cache
           /\ jobs' = r.jobs
           /\ listers' = [SettleLists(listers) EXCEPT ![t] = r.l]
    /\ queriers' = SettleQueries(queriers)
    /\ UNCHANGED <<files, sem, completed, saveVars, dlVars, chunkVars, optVars>>

(* the goroutine of ListFiles *)

\* the bag of goroutines with goroutine j in its next position
MoveJob(js, j, next) == (js (-) SetToBag({j})) (+) SetToBag({next})

\* md5Cache.semaphore <- struct{}{}: blocks while MD5MaxConcurrent are held;
\* then calculateFileMD5WithProgress starts on the file
JobAcquire(j) ==
    /\ j.pc = "wait"
    /\ sem < MD5MaxConcurrent
    /\ sem' = sem + 1
    /\ jobs' = MoveJob(jobs, j, [j EXCEPT !.pc = "hash",
                                          !.fileSize = SizeOf(files[j.path])])
    /\ listers' = SettleLists(listers)
    /\ queriers' = SettleQueries(queriers)
    /\ UNCHANGED <<files, cache, completed, saveVars, dlVars, chunkVars, optVars>>

\* a file above LargeFileSize is hashed by calculateFileMD5Chunked, which
\* reports progress; a smaller one by calculateFileMD5, which reports none
Chunked(j) == j.fileSize > LargeFileSize

\* the bytes of the file a goroutine has not hashed yet
Unread(j) == Len(files[j.path].data) - Len(j.hashed)

\* calculateFileMD5Chunked: one Read of at most MD5ChunkSize bytes and the
\* progress callback, md5Cache.UpdateProgress(filePath, totalRead/fileSize)
JobRead(j) ==
    /\ j.pc = "hash"
    /\ Chunked(j)
    /\ Unread(j) > 0
    /\ LET pos == Len(j.hashed)
           nr == Min(MD5ChunkSize, Unread(j))
       IN  /\ jobs' = MoveJob(jobs, j, [j EXCEPT !.hashed =
                            j.hashed \o SubSeq(files[j.path].data, pos + 1, pos + nr)])
           /\ cache' = UpdateProgress(cache, j.path, <<pos + nr, j.fileSize>>)
    /\ listers' = SettleLists(listers)
    /\ queriers' = SettleQueries(queriers)
    /\ UNCHANGED <<files, sem, completed, saveVars, dlVars, chunkVars, optVars>>

\* the bytes a goroutine's hash covers once the file is read to its end
JobDigest(j) ==
    Digest(IF Chunked(j) THEN j.hashed ELSE files[j.path].data)

\* the file is read to its end: md5Cache.SetMD5ToCache(filePath, md5, modTime,
\* size) with the fingerprint ListFiles captured
JobStore(j) ==
    /\ j.pc = "hash"
    /\ Chunked(j) => Unread(j) = 0
    /\ cache' = SetMD5ToCache(cache, j.path, JobDigest(j), j.modTime, j.size)
    /\ jobs' = MoveJob(jobs, j, Releasing)
    /\ completed' = completed \cup {j.path}
    /\ listers' = SettleLists(listers)
    /\ queriers' = SettleQueries(queriers)
    /\ UNCHANGED <<files, sem, saveVars, dlVars, chunkVars, optVars>>

\* a goroutine whose computation fails and which ends without its deferred
\* receive: the permit stays taken
JobFailKeepsPermit(j) ==
    /\ j.pc = "hash"
    /\ cache' = SetError(cache, j.path, "io")
    /\ jobs' = jobs (-) SetToBag({j})
    /\ completed' = completed \ {j.path}
    /\ listers' = SettleLists(listers)
    /\ queriers' = SettleQueries(queriers)
    /\ UNCHANGED <<files, sem, saveVars, dlVars, chunkVars, optVars>>

\* os.Stat, os.Open or a Read fails: md5Cache.SetError(filePath, err)
JobFail(j) ==
    /\ j.pc = "hash"
    /\ cache' = SetError(cache, j.path, "io")
    /\ jobs' = MoveJob(jobs, j, Releasing)
    /\ completed' = completed \ {j.path}
    /\ listers' = SettleLists(listers)
    /\ queriers' = SettleQueries(queriers)
    /\ UNCHANGED <<files, sem, saveVars, dlVars, chunkVars, optVars>>

\* the deferred <-md5Cache.semaphore; the goroutine ends
JobRelease(j) ==
    /\ j.pc = "release"
    /\ sem' = sem - 1
    /\ jobs' = jobs (-) SetToBag({j})
    /\ listers' = SettleLists(listers)
    /\ queriers' = SettleQueries(queriers)
    /\ UNCHANGED <<files, cache, completed, saveVars, dlVars, chunkVars, optVars>>

(* files that change *)

\* how a stored file changes: rewritten in place (other bytes, a later
\* modification time, the same size) or grown by a byte within the
\* granularity of the modification time (the same time, a larger size)
ModKinds == {"rewrite", "grow"}

Modified(file, kind) ==
    IF kind = "rewrite"
    THEN [data |-> [k \in 1..Len(file.data) |-> 3 - file.data[k]], mt |-> file.mt + 1]
    ELSE [data |-> file.data \o <<1>>, mt |-> file.mt]

\* a writer outside the checksum code changes a stored file (the model
\* follows one change)
ModifyFile(filePath, kind) ==
    /\ files = StoredFiles
    /\ files' = [files EXCEPT ![filePath] = Modified(files[filePath], kind)]
    /\ listers' = SettleLists(listers)
    /\ queriers' = SettleQueries(queriers)
    /\ UNCHANGED <<cache, sem, jobs, completed, saveVars, dlVars, chunkVars, optVars>>

\* no ListFiles or GetFileMD5 call is running and no goroutine is left
Quiet ==
    /\ jobs = EmptyBag
    /\ \A t \in Listers : listers[t].pc = "done"
    /\ \A t \in Queriers : queriers[t].pc = "done"

\* the entry of a path holds the outcome of a computation: an MD5 or an error
Settled(entry) == entry.Calculated \/ entry.Error # ""

(* the background goroutines on their own *)

\* the goroutines the model lets wait and run together: one more than there
\* are permits
MostJobs == MD5MaxConcurrent + 1

\* a ListFiles call at filePath, its two cache reads, SetCalculating and the
\* go statement taken in one step: the cache misses and the entry is not
\* Calculating (the rest of the call changes nothing)
ListFilesSchedule(filePath) ==
    /\ BagCardinality(jobs) < MostJobs
    /\ ~GetMD5FromCache(cache, filePath, ModTimeOf(files[filePath]),
                        SizeOf(files[filePath])).ok
    /\ ~GetProgress(cache, filePath).calculating
    /\ cache' = SetCalculating(cache, filePath, ModTimeOf(files[filePath]),
                               SizeOf(files[filePath]))
    /\ jobs' = SpawnJob(jobs, filePath, ModTimeOf(files[filePath]),
                        SizeOf(files[filePath]))
    /\ listers' = SettleLists(listers)
    /\ queriers' = SettleQueries(queriers)
    /\ UNCHANGED <<files, sem, completed, saveVars, dlVars, chunkVars, optVars>>

\* the goroutines ListFiles can have started for the stored files, in each of
\* their positions
JobsWaiting ==
    {[NoJob EXCEPT !.path = f, !.modTime = ModTimeOf(StoredFiles[f]),
                   !.size = SizeOf(StoredFiles[f])] : f \in Paths}

JobsRunning ==
    UNION {{[w EXCEPT !.pc = "hash", !.fileSize = w.size,
                      !.hashed = SubSeq(StoredFiles[w.path].data, 1, n)] :
                n \in 0..w.size} : w \in JobsWaiting}

\* the scheduler runs every goroutine that can take a step, and every read of
\* a file ends (with bytes, the end of the file, or an error)
JobsFair ==
    /\ \A j \in JobsWaiting : WF_vars(BagIn(j, jobs) /\ JobAcquire(j))
    /\ \A j \in JobsRunning : WF_vars(BagIn(j, jobs) /\ JobRead(j))
    /\ \A j \in JobsRunning : WF_vars(BagIn(j, jobs) /\ (JobStore(j) \/ JobFail(j)))
    /\ WF_vars(BagIn(Releasing, jobs) /\ JobRelease(Releasing))

\* a goroutine parked in the send on md5Cache.semaphore is served when its
\* turn comes: one that can take a permit again and again does take one
PermitsFair ==
    \A j \in JobsWaiting : SF_vars(BagIn(j, jobs) /\ JobAcquire(j))

(* GetFileMD5 *)

QueryReturn(q, status, md5, progress) ==
    [q EXCEPT !.pc = "done", !.status = status, !.md5 = md5, !.progress = progress,
              !.fresh = TRUE]

\* one step of GetFileMD5 from position q.pc: the cache and the call afterwards
QueryStep(q, fl, mc) ==
    CASE q.pc = "get" ->
            \* md5Cache.GetMD5FromCache(filePath, info.ModTime(), info.Size())
            LET r == GetMD5FromCache(mc, q.path, q.modTime, q.size)
            IN  [cache |-> mc,
                 q |-> IF r.ok THEN QueryReturn(q, "md5", r.md5, <<0, 1>>)
                       ELSE [q EXCEPT !.pc = "progress"]]
      [] q.pc = "progress" ->
            \* md5Cache.GetProgress(filePath)
            LET r == GetProgress(mc, q.path)
            IN  [cache |-> mc,
                 q |-> IF r.calculating
                       THEN QueryReturn(q, "in_progress", NoMD5, r.progress)
                       ELSE IF r.error # ""
                            THEN QueryReturn(q, "failed", NoMD5, <<0, 1>>)
                       ELSE [q EXCEPT !.pc = "hash"]]
      [] q.pc = "hash" ->
            \* calculateFileMD5WithProgress(filePath, nil) is done:
            \* md5Cache.SetMD5ToCache(filePath, md5sum, info.ModTime(), info.Size())
            LET md5sum == Digest(fl[q.path].data)
            IN  [cache |-> SetMD5ToCache(mc, q.path, md5sum, q.modTime, q.size),
                 q |-> QueryReturn(q, "md5", md5sum, <<0, 1>>)]

\* a thread enters GetFileMD5(storagePath, filename): os.Stat
GetFileMD5(t, filePath) ==
    /\ queriers[t].pc = "done"
    /\ queriers' = [SettleQueries(queriers) EXCEPT ![t] =
            [NoQuery EXCEPT !.pc = "get", !.path = filePath,
                            !.modTime = ModTimeOf(files[filePath]),
                            !.size = SizeOf(files[filePath]),
                            !.bg = JobsHashing(filePath) > 0]]
    /\ listers' = SettleLists(listers)
    /\ UNCHANGED <<files, cache, sem, jobs, completed, saveVars, dlVars, chunkVars, optVars>>

\* a thread takes the next step of its GetFileMD5 call; bg records whether a
\* goroutine was hashing the path at every step of the call
QueryAdvance(t) ==
    /\ queriers[t].pc # "done"
    /\ LET r == QueryStep(queriers[t], files, cache)
       IN  /\ cache' = r.cache
           /\ queriers' = [SettleQueries(queriers) EXCEPT ![t] =
                    [r.q EXCEPT !.bg = queriers[t].bg /\ JobsHashing(queriers[t].path) > 0]]
    /\ listers' = SettleLists(listers)
    /\ UNCHANGED <<files, sem, jobs, completed, saveVars, dlVars, chunkVars, optVars>>

\* the synchronous hash fails (os.Stat, os.Open or a Read): the error is returned
QueryFail(t) ==
    /\ queriers[t].pc = "hash"
    /\ queriers' = [SettleQueries(queriers) EXCEPT ![t] =
            QueryReturn(queriers[t], "ioerr", NoMD5, <<0, 1>>)]
    /\ listers' = SettleLists(listers)
    /\ UNCHANGED <<files, cache, sem, jobs, completed, saveVars, dlVars, chunkVars, optVars>>

(* ----------------------------- permit pools --------------------------- *)

\* the kinds of permit: the upload and download slots of GlobalOptimizer and
\* the checksum permits of md5Cache
Kinds == {"upload", "download", "checksum"}

\* the capacity each channel is made with
Ceiling(kind) ==
    CASE kind = "upload" -> MaxConcurrentUploads
      [] kind = "download" -> MaxConcurrentDownloads
      [] kind = "checksum" -> MD5MaxConcurrent

\* a buffered channel of struct{}: the values in its buffer (the permits
\* held), the senders parked on it and the receivers parked on it
EmptyChan == [held |-> 0, senders |-> 0, receivers |-> 0]

\* a send that never parks: a channel with no capacity limit
ChanSendUnbounded(ch, cap) == [ch EXCEPT !.held = ch.held + 1]

\* ch <- struct{}{} on a channel of capacity cap: handed to a parked receiver,
\* put in the buffer, or the sender parks while the buffer is full
ChanSend(ch, cap) ==
    IF ch.receivers > 0 THEN [ch EXCEPT !.receivers = ch.receivers - 1]
    ELSE IF ch.held < cap THEN [ch EXCEPT !.held = ch.held + 1]
    ELSE [ch EXCEPT !.senders = ch.senders + 1]

\* <-ch: a value leaves the buffer and the value of a parked sender, if any,
\* enters it; the receiver parks while the buffer is empty
ChanRecv(ch) ==
    IF ch.held = 0 THEN [ch EXCEPT !.receivers = ch.receivers + 1]
    ELSE IF ch.senders > 0 THEN [ch EXCEPT !.senders = ch.senders - 1]
    ELSE [ch EXCEPT !.held = ch.held - 1]

PoolsIdle == pools = [k \in Kinds |-> EmptyChan]

\* AcquireUploadSlot, AcquireDownloadSlot, md5Cache.semaphore <- struct{}{}
Acquire(kind) ==
    /\ pools[kind].senders < MaxParked
    /\ pools' = [pools EXCEPT ![kind] = ChanSend(pools[kind], Ceiling(kind))]
    /\ UNCHANGED exceptPools

\* ReleaseUploadSlot, ReleaseDownloadSlot, <-md5Cache.semaphore
Release(kind) ==
    /\ pools[kind].receivers < MaxParked
    /\ pools' = [pools EXCEPT ![kind] = ChanRecv(pools[kind])]
    /\ UNCHANGED exceptPools

(* ------------------------------ transfers ----------------------------- *)

\* the kinds of transfer
TransferKinds == {"upload", "download"}

\* most transfers of a kind the model lets execute at once: one more than the
\* slots of the kind
MostTransfers(kind) == Ceiling(kind) + 1

TransfersIdle == transfers = [k \in TransferKinds |-> 0]

\* no GetMD5Progress call yet. second: the second result; running, finished:
\* whether a background goroutine was hashing the path when the call was made,
\* and whether the background computation of the path had completed
NoProgress ==
    [called |-> FALSE, path |-> "", progress |-> <<0, 1>>, second |-> FALSE,
     errMsg |-> "", running |-> FALSE, finished |-> FALSE]

ProgressIdle == seen = NoProgress

\* no SaveFileWithTimeout call yet. call: where the caller is ("select",
\* "returned"); pc: where the goroutine that runs SaveFile is; errCh: the
\* buffered channel of capacity 1; atReturn: the destination when the call
\* returned
NoUpload ==
    [call |-> "none", pc |-> "none", data |-> <<>>, hdr |-> <<>>, pos |-> 0,
     errCh |-> <<>>, ret |-> "none", atReturn |-> NoFile]

UploadIdle == upload = NoUpload

\* no copy loop is running; late: the Reads started after the context was
\* cancelled
NoCopy ==
    [fn |-> "none", pc |-> "done", src |-> <<>>, pos |-> 0, size |-> 0,
     out |-> <<>>, written |-> 0, nr |-> 0, cancelled |-> FALSE, ret |-> "none",
     late |-> 0]

CopyIdle == copy = NoCopy

\* the threads that call the methods of md5Cache
CacheThreads == {"r", "s", "u"}

\* a thread that is in no method of md5Cache; held: how it holds mc.mutex
NoCacheCall == [op |-> "none", path |-> "", pc |-> "idle", held |-> "none"]

MutexIdle == mutex = [t \in CacheThreads |-> NoCacheCall]

\* no BatchUpload call; workers: the goroutine of each file; held: the
\* permits of semaphore taken; wg: the WaitGroup counter; oks, errs: the
\* results in the buffer of resultChan
NoBatch ==
    [pc |-> "idle", n |-> 0, workers |-> <<>>, held |-> 0, wg |-> 0, oks |-> 0,
     errs |-> 0, closed |-> FALSE, successCount |-> 0, errorCount |-> 0,
     errors |-> 0]

BatchIdle == batch = NoBatch

\* no Process call; taskChan, resultChan: the buffers of the two channels;
\* runs: how often each task was executed; errors: the slice Process collects
NoProc ==
    [pc |-> "idle", n |-> 0, taskChan |-> <<>>, workers |-> <<>>, wg |-> 0,
     resultChan |-> <<>>, closed |-> FALSE, errors |-> <<>>, runs |-> <<>>,
     cancelled |-> FALSE]

ProcIdle == proc = NoProc

\* the chat clients (one Client per WebSocket connection)
Clients == {"c", "d"}

\* ChatMessage.Type
MsgTypes == {"join", "leave", "message"}

\* the hub at its select with no client.  cur, message: what the hub received;
\* todo: the clients its range has yet to visit; writer, readers: who holds
\* h.mutex exclusively and who holds it shared; broadcast: the buffer of
\* h.broadcast; senders: the goroutines waiting to send a join or leave
\* message; conn: where each connection is; send: the buffer of each
\* client.send; closes: how often close(client.send) ran; dropped: the clients
\* the broadcast removed; panic: the run-time
\* panic that ended the process; count: the state of the GetClientCount call
NoHub ==
    [pc |-> "select", cur |-> "", message |-> "", todo |-> {}, clients |-> {},
     writer |-> FALSE, readers |-> {}, broadcast |-> <<>>,
     senders |-> [join |-> 0, leave |-> 0],
     conn |-> [c \in Clients |-> "none"],
     send |-> [c \in Clients |-> <<>>],
     closes |-> [c \in Clients |-> 0],
     dropped |-> {},
     panic |-> "none",
     count |-> "idle"]

HubIdle == hub = NoHub

OptIdle ==
    PoolsIdle /\ TransfersIdle /\ UploadIdle /\ ProgressIdle /\ CopyIdle /\ MutexIdle
        /\ BatchIdle /\ ProcIdle /\ HubIdle

\* a request enters SaveFile, SaveFileWithTimeout or SaveFileChunk (upload) or
\* DownloadFile or DownloadFileChunk (download): none of them, and no handler
\* that calls them, takes a slot of GlobalOptimizer
TransferBegin(kind) ==
    /\ transfers[kind] < MostTransfers(kind)
    /\ transfers' = [transfers EXCEPT ![kind] = transfers[kind] + 1]
    /\ UNCHANGED exceptTransfers

\* the transfer returns, with or without an error: no slot is released
TransferEnd(kind) ==
    /\ transfers[kind] > 0
    /\ transfers' = [transfers EXCEPT ![kind] = transfers[kind] - 1]
    /\ UNCHANGED exceptTransfers

(* --------------------------- progress query -------------------------- *)

\* GetMD5Progress(filePath), which FileService.GetFileMD5Progress and the
\* MD5CalculatorAdapter pass on: md5Cache.GetProgress(filePath)
GetMD5Progress(filePath) ==
    /\ ~seen.called
    /\ LET r == GetProgress(cache, filePath)
       IN  seen' = [called |-> TRUE, path |-> filePath, progress |-> r.progress,
                    second |-> r.calculating, errMsg |-> r.error,
                    running |-> JobsHashing(filePath) > 0,
                    finished |-> filePath \in Completed]
    /\ UNCHANGED <<saveVars, dlVars, chunkVars, md5Vars, pools, transfers, upload, otherVars>>

(* ------------------------ upload with a deadline ---------------------- *)

\* SaveFileWithTimeout(ctx, storagePath, file, rangeHeader): context.WithTimeout,
\* the go statement, and the caller enters the select
SaveFileWithTimeout(data, rangeHeader) ==
    /\ upload.call # "select"
    /\ upload.pc \in {"none", "ended"}
    /\ (IF dest = NoFile THEN 0 ELSE Len(dest)) + Len(data) <= MaxFileLen
    /\ upload' = [NoUpload EXCEPT !.call = "select", !.pc = "start",
                                  !.data = data, !.hdr = rangeHeader]
    /\ UNCHANGED <<dest, exceptUpload>>

\* the goroutine, SaveFile up to os.OpenFile: a header that does not parse ends
\* it with the error sent on errCh; otherwise the destination exists from here
UploadOpen ==
    /\ upload.pc = "start"
    /\ IF SaveFileStart(upload.hdr).ok
       THEN /\ dest' = (IF dest = NoFile THEN <<>> ELSE dest)
            /\ upload' = [upload EXCEPT !.pc = "copy"]
       ELSE /\ upload' = [upload EXCEPT !.pc = "ended", !.errCh = <<"syntax">>]
            /\ UNCHANGED dest
    /\ UNCHANGED exceptUpload

\* the goroutine, io.CopyBuffer: one Read of the upload and one Write of the
\* block to the destination
UploadWrite ==
    /\ upload.pc = "copy"
    /\ upload.pos < Len(upload.data)
    /\ LET n == Min(DefaultBufferSize, Len(upload.data) - upload.pos)
           block == SubSeq(upload.data, upload.pos + 1, upload.pos + n)
       IN  /\ dest' = AppendWrite(dest, SaveFileStart(upload.hdr).val, block)
           /\ upload' = [upload EXCEPT !.pos = upload.pos + n]
    /\ UNCHANGED exceptUpload

\* the goroutine: the copy is at the end of the upload, SaveFile returns and
\* its result is sent on errCh
UploadFinish ==
    /\ upload.pc = "copy"
    /\ upload.pos = Len(upload.data)
    /\ upload' = [upload EXCEPT !.pc = "ended", !.errCh = <<"nil">>]
    /\ UNCHANGED <<dest, exceptUpload>>

\* the caller, case err := <-errCh: return err
UploadReturn ==
    /\ upload.call = "select"
    /\ upload.errCh # <<>>
    /\ upload' = [upload EXCEPT !.call = "returned", !.ret = upload.errCh[1],
                                !.errCh = <<>>, !.atReturn = dest]
    /\ UNCHANGED <<dest, exceptUpload>>

\* the caller, case <-ctx.Done(): return ctx.Err() (the caller's context is
\* cancelled or the 30 s deadline passes)
UploadCancel ==
    /\ upload.call = "select"
    /\ upload' = [upload EXCEPT !.call = "returned", !.ret = "cancelled",
                                !.atReturn = dest]
    /\ UNCHANGED <<dest, exceptUpload>>

(* ------------------------- cancellable copy loops --------------------- *)

\* copyWithCancel of file_storage.go and PerformanceOptimizer.OptimizedCopy
CopyFns == {"copyWithCancel", "OptimizedCopy"}

\* a loop that goes to the Read without looking at ctx.Done()
CheckStepBlind(c) == [c EXCEPT !.pc = "read"]

\* select { case <-ctx.Done(): return ctx.Err(); default: }
CheckStep(c) ==
    IF c.cancelled THEN [c EXCEPT !.pc = "done", !.ret = "canceled"]
    ELSE [c EXCEPT !.pc = "read"]

\* nr, er := src.Read(buf) on a file: at most DefaultBufferSize bytes, or
\* (0, io.EOF) at its end, which ends the loop with nil
ReadStep(c) ==
    LET nr == Min(DefaultBufferSize, Len(c.src) - c.pos)
        late == c.late + (IF c.cancelled THEN 1 ELSE 0)
    IN  IF nr > 0
        THEN [c EXCEPT !.pc = "write", !.nr = nr, !.pos = c.pos + nr, !.late = late]
        ELSE [c EXCEPT !.pc = "done", !.ret = "nil", !.nr = 0, !.late = late]

\* dst.Write(buf[0:nr]) takes the block; OptimizedCopy leaves the loop once
\* written >= size, copyWithCancel goes round until the end of the file
WriteStep(c) ==
    LET written == c.written + c.nr
        out == c.out \o SubSeq(c.src, c.pos - c.nr + 1, c.pos)
    IN  IF c.fn = "OptimizedCopy" /\ written >= c.size
        THEN [c EXCEPT !.pc = "done", !.ret = "nil", !.out = out, !.written = written]
        ELSE [c EXCEPT !.pc = "check", !.out = out, !.written = written]

\* dst.Write(buf[0:nr]) accepts nw < nr bytes and reports no error:
\* copyWithCancel returns io.ErrShortWrite (nr != nw); OptimizedCopy has no
\* such test, adds nw to written and goes on
ShortWriteStep(c, nw) ==
    LET written == c.written + nw
        out == c.out \o SubSeq(c.src, c.pos - c.nr + 1, c.pos - c.nr + nw)
    IN  IF c.fn = "copyWithCancel"
        THEN [c EXCEPT !.pc = "done", !.ret = "short_write", !.out = out,
                       !.written = written]
        ELSE IF written >= c.size
        THEN [c EXCEPT !.pc = "done", !.ret = "nil", !.out = out, !.written = written]
        ELSE [c EXCEPT !.pc = "check", !.out = out, !.written = written]

\* a caller enters copyWithCancel or OptimizedCopy(ctx, dst, src, size); the
\* context may be cancelled already
CopyBegin(fn, src, size, cancelled) ==
    /\ copy.pc = "done"
    /\ copy' = [NoCopy EXCEPT !.fn = fn, !.pc = "check", !.src = src, !.size = size,
                              !.cancelled = cancelled]
    /\ UNCHANGED exceptCopy

\* the cancellation check at the head of the loop
CopyCheck ==
    /\ copy.pc = "check"
    /\ copy' = CheckStep(copy)
    /\ UNCHANGED exceptCopy

CopyRead ==
    /\ copy.pc = "read"
    /\ copy' = ReadStep(copy)
    /\ UNCHANGED exceptCopy

\* the Read fails with an error other than io.EOF: the loop returns it
CopyReadFail ==
    /\ copy.pc = "read"
    /\ copy' = [copy EXCEPT !.pc = "done", !.ret = "read_error",
                            !.late = copy.late + (IF copy.cancelled THEN 1 ELSE 0)]
    /\ UNCHANGED exceptCopy

CopyWrite ==
    /\ copy.pc = "write"
    /\ copy' = WriteStep(copy)
    /\ UNCHANGED exceptCopy

\* the Write fails (the consumer is gone): the loop returns ew
CopyWriteFail ==
    /\ copy.pc = "write"
    /\ copy' = [copy EXCEPT !.pc = "done", !.ret = "write_error"]
    /\ UNCHANGED exceptCopy

\* the Write takes only a part of the block
CopyWriteShort(nw) ==
    /\ copy.pc = "write"
    /\ nw < copy.nr
    /\ copy' = ShortWriteStep(copy, nw)
    /\ UNCHANGED exceptCopy

\* the context of the call is cancelled while the loop runs
CopyCancel ==
    /\ copy.pc # "done"
    /\ ~copy.cancelled
    /\ copy' = [copy EXCEPT !.cancelled = TRUE]
    /\ UNCHANGED exceptCopy

(* ----------------------- the lock of the checksum cache ---------------- *)

\* the methods of MD5Cache that read the map and the ones that write it
CacheReads == {"GetMD5FromCache", "GetProgress"}

CacheWrites == {"SetMD5ToCache", "SetCalculating", "UpdateProgress", "SetError"}

\* every method taking the lock in shared mode
LockModeShared(op) == "shared"

\* how a method takes mc.mutex: RLock in GetMD5FromCache and GetProgress,
\* Lock in the others
LockMode(op) == IF op \in CacheReads THEN "shared" ELSE "exclusive"

\* sync.RWMutex: RLock waits while a writer holds the lock, Lock waits while
\* anyone holds it
CanLock(mx, t, mode) ==
    IF mode = "shared" THEN \A u \in CacheThreads : mx[u].held # "exclusive"
    ELSE \A u \in CacheThreads : mx[u].held = "none"

\* the body of a method between its lock and its deferred unlock
CacheAccess(mc, fl, op, filePath) ==
    CASE op = "SetMD5ToCache" ->
            SetMD5ToCache(mc, filePath, Digest(fl[filePath].data),
                          ModTimeOf(fl[filePath]), SizeOf(fl[filePath]))
      [] op = "SetCalculating" ->
            SetCalculating(mc, filePath, ModTimeOf(fl[filePath]), SizeOf(fl[filePath]))
      [] op = "UpdateProgress" -> UpdateProgress(mc, filePath, <<1, 1>>)
      [] op = "SetError" -> SetError(mc, filePath, "io")
      [] OTHER -> mc

\* a thread calls a method of md5Cache
CacheCall(t, op, filePath) ==
    /\ mutex[t].pc = "idle"
    /\ mutex' = [mutex EXCEPT ![t] = [op |-> op, path |-> filePath, pc |-> "lock",
                                      held |-> "none"]]
    /\ UNCHANGED <<cache, exceptMutex>>

\* mc.mutex.RLock() or mc.mutex.Lock() returns
CacheLock(t) ==
    /\ mutex[t].pc = "lock"
    /\ CanLock(mutex, t, LockMode(mutex[t].op))
    /\ mutex' = [mutex EXCEPT ![t].pc = "access", ![t].held = LockMode(mutex[t].op)]
    /\ UNCHANGED <<cache, exceptMutex>>

\* the method reads or writes mc.cache
CacheBody(t) ==
    /\ mutex[t].pc = "access"
    /\ cache' = CacheAccess(cache, files, mutex[t].op, mutex[t].path)
    /\ mutex' = [mutex EXCEPT ![t].pc = "unlock"]
    /\ UNCHANGED exceptMutex

\* the deferred RUnlock or Unlock; the method returns
CacheUnlock(t) ==
    /\ mutex[t].pc = "unlock"
    /\ mutex' = [mutex EXCEPT ![t] = NoCacheCall]
    /\ UNCHANGED <<cache, exceptMutex>>

(* ------------------------------ batch upload -------------------------- *)

\* a gate as wide as the batch
GateOpen(n) == n

\* maxConcurrent: 10, or len(files) when that is less
Gate(n) == Min(BatchMaxConcurrent, n)

\* the goroutine of one file: pc "wait" before the send on semaphore, "save"
\* in SaveFile, "release" before its deferred calls, "end"; calls: the
\* SaveFile calls made for the file
NewWorker == [pc |-> "wait", calls |-> 0]

\* what SaveFile returns
SaveOutcomes == {"nil", "err"}

\* FileService.BatchUpload(ctx, files) with no file: (0, 0, nil)
BatchUploadNone ==
    /\ batch.pc = "idle"
    /\ batch' = [NoBatch EXCEPT !.pc = "returned"]
    /\ UNCHANGED exceptBatch

\* BatchUpload with one file: SaveFile in the calling goroutine
BatchUploadOne(r) ==
    /\ batch.pc = "idle"
    /\ batch' = [NoBatch EXCEPT !.pc = "returned", !.n = 1,
                                !.workers = <<[pc |-> "end", calls |-> 1]>>,
                                !.successCount = IF r = "nil" THEN 1 ELSE 0,
                                !.errorCount = IF r = "nil" THEN 0 ELSE 1,
                                !.errors = IF r = "nil" THEN 0 ELSE 1]
    /\ UNCHANGED exceptBatch

\* BatchUpload with n > 1 files: wg.Add(1) and a go statement for each file,
\* the goroutine that closes resultChan, and the caller enters its range loop
BatchUploadMany(n) ==
    /\ batch.pc = "idle"
    /\ n > 1
    /\ batch' = [NoBatch EXCEPT !.pc = "collect", !.n = n,
                                !.workers = [f \in 1..n |-> NewWorker], !.wg = n]
    /\ UNCHANGED exceptBatch

\* semaphore <- struct{}{}
WorkerAcquire(f) ==
    /\ batch.pc = "collect"
    /\ batch.workers[f].pc = "wait"
    /\ batch.held < Gate(batch.n)
    /\ batch' = [batch EXCEPT !.held = batch.held + 1, !.workers[f].pc = "save"]
    /\ UNCHANGED exceptBatch

\* s.storage.SaveFile(ctx, f, "") returns r; resultChan <- uploadResult{err}
\* (the buffer holds len(files) results, the send never waits)
WorkerSave(f, r) ==
    /\ batch.pc = "collect"
    /\ batch.workers[f].pc = "save"
    /\ batch' = [batch EXCEPT !.workers[f] = [pc |-> "release",
                                              calls |-> batch.workers[f].calls + 1],
                              !.oks = batch.oks + (IF r = "nil" THEN 1 ELSE 0),
                              !.errs = batch.errs + (IF r = "nil" THEN 0 ELSE 1)]
    /\ UNCHANGED exceptBatch

\* the deferred <-semaphore and wg.Done()
WorkerRelease(f) ==
    /\ batch.pc = "collect"
    /\ batch.workers[f].pc = "release"
    /\ batch' = [batch EXCEPT !.held = batch.held - 1, !.wg = batch.wg - 1,
                              !.workers[f].pc = "end"]
    /\ UNCHANGED exceptBatch

\* wg.Wait() returns; close(resultChan)
BatchClose ==
    /\ batch.pc = "collect"
    /\ batch.wg = 0 /\ ~batch.closed
    /\ batch' = [batch EXCEPT !.closed = TRUE]
    /\ UNCHANGED exceptBatch

\* the range loop of the caller takes a result off resultChan
BatchCollect(r) ==
    /\ batch.pc = "collect"
    /\ IF r = "nil" THEN batch.oks > 0 ELSE batch.errs > 0
    /\ batch' = IF r = "nil"
                THEN [batch EXCEPT !.oks = batch.oks - 1,
                                   !.successCount = batch.successCount + 1]
                ELSE [batch EXCEPT !.errs = batch.errs - 1,
                                   !.errorCount = batch.errorCount + 1,
                                   !.errors = batch.errors + 1]
    /\ UNCHANGED exceptBatch

\* resultChan is closed and empty: the range loop ends and BatchUpload returns
BatchReturn ==
    /\ batch.pc = "collect"
    /\ batch.closed /\ batch.oks = 0 /\ batch.errs = 0
    /\ batch' = [batch EXCEPT !.pc = "returned"]
    /\ UNCHANGED exceptBatch

\* the scheduler runs every goroutine that can take a step, and every
\* SaveFile call returns
BatchFair ==
    /\ \A f \in 1..(MaxBatch + 1) :
            /\ WF_vars(f <= batch.n /\ WorkerAcquire(f))
            /\ WF_vars(f <= batch.n /\ \E r \in SaveOutcomes : WorkerSave(f, r))
            /\ WF_vars(f <= batch.n /\ WorkerRelease(f))
    /\ WF_vars(BatchClose)
    /\ WF_vars(\E r \in SaveOutcomes : BatchCollect(r))
    /\ WF_vars(BatchReturn)

(* ------------------------- concurrent processor ----------------------- *)

\* as many workers as workerCount, whatever the number of tasks
ProcWorkersUncapped(n) == ProcWorkerCount

\* workerCount, capped to len(tasks)
ProcWorkers(n) == Min(ProcWorkerCount, n)

\* a worker goroutine at its select
NewProcWorker == [pc |-> "select", task |-> 0]

\* what a task returns
TaskOutcomes == {"nil", "err"}

\* Process(ctx, tasks) with no task: nil
ProcessNone ==
    /\ proc.pc \in {"idle", "returned"}
    /\ proc' = [NoProc EXCEPT !.pc = "returned"]
    /\ UNCHANGED exceptProc

\* Process(ctx, tasks) with n tasks, up to the range over resultChan: taskChan
\* filled and closed, the workers and the closing goroutine started
Process(n, cancelled) ==
    /\ proc.pc \in {"idle", "returned"}
    /\ proc' = [NoProc EXCEPT !.pc = "collect", !.n = n,
                              !.taskChan = [t \in 1..n |-> t],
                              !.workers = [w \in 1..ProcWorkers(n) |-> NewProcWorker],
                              !.wg = ProcWorkers(n),
                              !.runs = [t \in 1..n |-> 0],
                              !.cancelled = cancelled]
    /\ UNCHANGED exceptProc

\* the context of the call is cancelled
ProcCancel ==
    /\ proc.pc = "collect"
    /\ ~proc.cancelled
    /\ proc' = [proc EXCEPT !.cancelled = TRUE]
    /\ UNCHANGED exceptProc

\* a worker's select: case task, ok := <-taskChan with a task in the buffer
ProcWorkerTake(w) ==
    /\ proc.pc = "collect"
    /\ proc.workers[w].pc = "select"
    /\ proc.taskChan # <<>>
    /\ proc' = [proc EXCEPT !.taskChan = Tail(proc.taskChan),
                            !.workers[w] = [pc |-> "run", task |-> Head(proc.taskChan)]]
    /\ UNCHANGED exceptProc

\* a worker's select: taskChan closed and empty (!ok), or ctx.Done(); return
\* and the deferred wg.Done
ProcWorkerExit(w) ==
    /\ proc.pc = "collect"
    /\ proc.workers[w].pc = "select"
    /\ proc.taskChan = <<>> \/ proc.cancelled
    /\ proc' = [proc EXCEPT !.workers[w].pc = "exit", !.wg = proc.wg - 1]
    /\ UNCHANGED exceptProc

\* resultChan <- task(): the task runs and its result goes into the buffer
\* of resultChan, which has room for len(tasks) results
ProcWorkerRun(w, r) ==
    /\ proc.pc = "collect"
    /\ proc.workers[w].pc = "run"
    /\ Len(proc.resultChan) < proc.n
    /\ proc' = [proc EXCEPT !.workers[w] = NewProcWorker,
                            !.runs[proc.workers[w].task] = @ + 1,
                            !.resultChan = Append(proc.resultChan, r)]
    /\ UNCHANGED exceptProc

\* the closing goroutine: wg.Wait(), close(resultChan)
ProcClose ==
    /\ proc.pc = "collect"
    /\ proc.wg = 0
    /\ ~proc.closed
    /\ proc' = [proc EXCEPT !.closed = TRUE]
    /\ UNCHANGED exceptProc

\* for err := range resultChan: errors = append(errors, err)
ProcCollect ==
    /\ proc.pc = "collect"
    /\ proc.resultChan # <<>>
    /\ proc' = [proc EXCEPT !.resultChan = Tail(proc.resultChan),
                            !.errors = Append(proc.errors, Head(proc.resultChan))]
    /\ UNCHANGED exceptProc

\* the range ends on the closed and empty resultChan: return errors
ProcReturn ==
    /\ proc.pc = "collect"
    /\ proc.resultChan = <<>>
    /\ proc.closed
    /\ proc' = [proc EXCEPT !.pc = "returned"]
    /\ UNCHANGED exceptProc

\* the scheduler runs every goroutine that can take a step, and every task
\* returns
ProcFair ==
    /\ \A w \in 1..(ProcWorkerCount + 1) :
            /\ WF_vars(w <= Len(proc.workers) /\ ProcWorkerTake(w))
            /\ WF_vars(w <= Len(proc.workers) /\ ProcWorkerExit(w))
            /\ WF_vars(w <= Len(proc.workers) /\ \E r \in TaskOutcomes : ProcWorkerRun(w, r))
    /\ WF_vars(ProcClose)
    /\ WF_vars(ProcCollect)
    /\ WF_vars(ProcReturn)

(* -------------------------------- chat hub ---------------------------- *)

\* close(client.send); closing a closed channel panics
CloseSend(h, c) ==
    [h EXCEPT !.closes[c] = @ + 1,
              !.panic = IF h.closes[c] > 0 THEN "close of closed channel" ELSE h.panic]

\* the unregister case with the channel closed whether or not the client is
\* in the set
HubUnregisterStepUnchecked(h) ==
    [CloseSend(h, h.cur) EXCEPT !.clients = h.clients \ {h.cur}]

\* the unregister case between Lock and Unlock: a client that is in the set
\* is deleted and its channel closed
HubUnregisterStep(h) ==
    IF h.cur \in h.clients
    THEN [CloseSend(h, h.cur) EXCEPT !.clients = h.clients \ {h.cur}]
    ELSE h

\* the select of the broadcast loop with a plain send in its place: the hub
\* waits for room in the buffer
HubDeliverStepWaiting(h, c) ==
    IF h.closes[c] > 0 THEN [h EXCEPT !.panic = "send on closed channel"]
    ELSE IF Len(h.send[c]) < SendBufferSize
         THEN [h EXCEPT !.send[c] = Append(@, h.message), !.todo = h.todo \ {c}]
         ELSE h

\* one iteration of the broadcast loop, for client c: the message goes into
\* the buffer of client.send, or with the buffer full (default) the channel
\* is closed and the client deleted; a send on a closed channel panics
HubDeliverStep(h, c) ==
    IF h.closes[c] > 0 THEN [h EXCEPT !.panic = "send on closed channel"]
    ELSE IF Len(h.send[c]) < SendBufferSize
         THEN [h EXCEPT !.send[c] = Append(@, h.message), !.todo = h.todo \ {c}]
         ELSE [CloseSend(h, c) EXCEPT !.clients = h.clients \ {c},
                                      !.dropped = h.dropped \cup {c},
                                      !.todo = h.todo \ {c}]

\* HandleWebSocket: a new client at s.hub.register <- client
HandleWebSocket(c) ==
    /\ hub.panic = "none"
    /\ hub.conn[c] = "none"
    /\ hub' = [hub EXCEPT !.conn[c] = "registering"]
    /\ UNCHANGED exceptHub

\* Run: case client := <-h.register; the client's pumps start
HubRegister(c) ==
    /\ hub.panic = "none"
    /\ hub.pc = "select"
    /\ hub.conn[c] = "registering"
    /\ hub' = [hub EXCEPT !.pc = "register", !.cur = c, !.conn[c] = "open"]
    /\ UNCHANGED exceptHub

\* Run: h.mutex.Lock() of the register and unregister cases
HubLock ==
    /\ hub.panic = "none"
    /\ hub.pc \in {"register", "unregister"}
    /\ ~hub.writer
    /\ hub.readers = {}
    /\ hub' = [hub EXCEPT !.writer = TRUE,
                          !.pc = IF hub.pc = "register" THEN "registerLocked"
                                 ELSE "unregisterLocked"]
    /\ UNCHANGED exceptHub

\* Run, register case: the insert, Unlock, the goroutine for the join message
HubRegisterBody ==
    /\ hub.panic = "none"
    /\ hub.pc = "registerLocked"
    /\ hub' = [hub EXCEPT !.clients = hub.clients \cup {hub.cur},
                          !.writer = FALSE,
                          !.senders.join = @ + 1,
                          !.pc = "select", !.cur = ""]
    /\ UNCHANGED exceptHub

\* readPump: ReadMessage fails, the deferred c.hub.unregister <- c
ClientClose(c) ==
    /\ hub.panic = "none"
    /\ hub.conn[c] = "open"
    /\ hub' = [hub EXCEPT !.conn[c] = "unregistering"]
    /\ UNCHANGED exceptHub

\* Run: case client := <-h.unregister
HubUnregister(c) ==
    /\ hub.panic = "none"
    /\ hub.pc = "select"
    /\ hub.conn[c] = "unregistering"
    /\ hub' = [hub EXCEPT !.pc = "unregister", !.cur = c, !.conn[c] = "gone"]
    /\ UNCHANGED exceptHub

\* Run, unregister case: the delete and close, Unlock, the goroutine for the
\* leave message
HubUnregisterBody ==
    /\ hub.panic = "none"
    /\ hub.pc = "unregisterLocked"
    /\ hub' = LET h == HubUnregisterStep(hub)
              IN  IF h.panic # "none" THEN h
                  ELSE [h EXCEPT !.writer = FALSE,
                                 !.senders.leave = @ + 1,
                                 !.pc = "select", !.cur = ""]
    /\ UNCHANGED exceptHub

\* readPump: c.hub.broadcast <- msg, with room in the buffer
ClientMessage(c) ==
    /\ hub.panic = "none"
    /\ hub.conn[c] = "open"
    /\ Len(hub.broadcast) < BroadcastBufferSize
    /\ hub' = [hub EXCEPT !.broadcast = Append(@, "message")]
    /\ UNCHANGED exceptHub

\* a goroutine started by Run: h.broadcast <- joinMsg or leaveMsg
SenderSend(type) ==
    /\ hub.panic = "none"
    /\ hub.senders[type] > 0
    /\ Len(hub.broadcast) < BroadcastBufferSize
    /\ hub' = [hub EXCEPT !.broadcast = Append(@, type), !.senders[type] = @ - 1]
    /\ UNCHANGED exceptHub

\* Run: case message := <-h.broadcast
HubBroadcast ==
    /\ hub.panic = "none"
    /\ hub.pc = "select"
    /\ hub.broadcast # <<>>
    /\ hub' = [hub EXCEPT !.pc = "broadcast", !.message = Head(hub.broadcast),
                          !.broadcast = Tail(hub.broadcast)]
    /\ UNCHANGED exceptHub

\* Run, broadcast case: h.mutex.RLock(), the range over h.clients begins
HubRLock ==
    /\ hub.panic = "none"
    /\ hub.pc = "broadcast"
    /\ ~hub.writer
    /\ hub' = [hub EXCEPT !.readers = hub.readers \cup {"hub"}, !.todo = hub.clients,
                          !.pc = "range"]
    /\ UNCHANGED exceptHub

\* Run, broadcast case: the iteration for client c
HubDeliver(c) ==
    /\ hub.panic = "none"
    /\ hub.pc = "range"
    /\ c \in hub.todo
    /\ hub' = HubDeliverStep(hub, c)
    /\ UNCHANGED exceptHub

\* Run, broadcast case: the range is over, h.mutex.RUnlock()
HubRUnlock ==
    /\ hub.panic = "none"
    /\ hub.pc = "range"
    /\ hub.todo = {}
    /\ hub' = [hub EXCEPT !.readers = hub.readers \ {"hub"}, !.pc = "select",
                          !.message = ""]
    /\ UNCHANGED exceptHub

\* writePump: case message, ok := <-c.send with a message in the buffer
ClientWrite(c) ==
    /\ hub.panic = "none"
    /\ hub.conn[c] \in {"open", "unregistering", "gone"}
    /\ hub.send[c] # <<>>
    /\ hub' = [hub EXCEPT !.send[c] = Tail(@)]
    /\ UNCHANGED exceptHub

\* GetClientCount: s.hub.mutex.RLock()
CountRLock ==
    /\ hub.panic = "none"
    /\ hub.count = "idle"
    /\ ~hub.writer
    /\ hub' = [hub EXCEPT !.readers = hub.readers \cup {"count"}, !.count = "locked"]
    /\ UNCHANGED exceptHub

\* GetClientCount: len(s.hub.clients), the deferred RUnlock
CountReturn ==
    /\ hub.panic = "none"
    /\ hub.count = "locked"
    /\ hub' = [hub EXCEPT !.readers = hub.readers \ {"count"}, !.count = "idle"]
    /\ UNCHANGED exceptHub

\* the scheduler runs the hub goroutine whenever it can take a step
HubFair ==
    /\ WF_vars(HubLock)
    /\ WF_vars(HubRegisterBody)
    /\ WF_vars(HubUnregisterBody)
    /\ WF_vars(HubRLock)
    /\ \A c \in Clients : WF_vars(HubDeliver(c))
    /\ WF_vars(HubRUnlock)

(* --------------------------- specifications --------------------------- *)

Md5Idle ==
    /\ files = <<>>
    /\ cache = <<>>
    /\ sem = 0
    /\ jobs = <<>>
    /\ listers = <<>>
    /\ queriers = <<>>
    /\ completed = {}

\* single-file uploads into one destination
InitSave == SaveIdle /\ DlIdle /\ ChunkIdle /\ Md5Idle /\ OptIdle

NextSave ==
    \E data \in SeqsUpTo(MaxDataLen), h \in SaveHeaders : SaveFile(data, h)

SpecSave == InitSave /\ [][NextSave]_vars

\* downloads of one stored file
InitDownload ==
    /\ SaveIdle /\ ChunkIdle /\ Md5Idle /\ OptIdle
    /\ dlFile \in SeqsUpTo(MaxFileLen) \cup {NoFile}
    /\ resp = NoResp

NextDownload ==
    \/ \E h \in DlHeaders, k \in SinkKinds, c \in DlCancels : DownloadFile(h, k, c)
    \/ \E i \in 0..MaxFileLen, n \in 1..MaxFileLen, k \in SinkKinds, c \in DlCancels :
            DownloadFileChunk(i, n, k, c)

SpecDownload == InitDownload /\ [][NextDownload]_vars

\* one download request through a handler
NextHandlers ==
    \/ \E h \in DlHeaders, c \in DlCancels : FileHandlersDownloadFile(h, c)
    \/ \E i \in 0..MaxFileLen, n \in 1..MaxFileLen, c \in DlCancels :
            FileHandlersDownloadChunk(i, n, c)
    \/ \E h \in DlHeaders, c \in DlCancels : downloadFileHandler(h, c)
    \/ \E i \in 0..MaxFileLen, n \in 1..MaxFileLen, c \in DlCancels :
            downloadChunkHandler(i, n, c)

SpecHandlers == InitDownload /\ [][NextHandlers]_vars

\* chunk uploads of one file name, one call at a time
InitChunk == SaveIdle /\ DlIdle /\ ChunkIdle /\ Md5Idle /\ OptIdle

NextChunkSeq ==
    \E index \in 0..(MaxChunks - 1), total \in 1..MaxChunks, data \in ChunkData :
        \E md5 \in DeclaredMD5s(fs, total, data) :
            SaveFileChunk("a", index, total, md5, data)

SpecChunkSeq == InitChunk /\ [][NextChunkSeq]_vars

\* the same calls one after another, taken step by step
NextChunkSteps ==
    \/ \E index \in 0..(MaxChunks - 1), total \in 1..MaxChunks, data \in ChunkData :
          \E md5 \in DeclaredMD5s(fs, total, data) :
              ChunkCall("a", [index |-> index, total |-> total, md5 |-> md5,
                              data |-> data])
    \/ ChunkAdvance("a")

SpecChunkSteps == InitChunk /\ [][NextChunkSteps]_vars

\* chunk uploads of one file name by concurrent callers
NextChunk ==
    \/ \E id \in Callers, q \in ConcurrentRequests : ChunkCall(id, q)
    \/ \E id \in Callers : ChunkAdvance(id)

SpecChunk == InitChunk /\ [][NextChunk]_vars

\* one listing thread, one query thread and the background goroutines
InitMD5 == SaveIdle /\ DlIdle /\ ChunkIdle /\ Md5Init /\ OptIdle

NextMD5 ==
    \/ ListFiles("l") \/ ListAdvance("l")
    \/ \E j \in BagToSet(jobs) : JobAcquire(j)
    \/ \E j \in BagToSet(jobs) : JobRead(j)
    \/ \E j \in BagToSet(jobs) : JobStore(j)
    \/ \E j \in BagToSet(jobs) : JobFail(j)
    \/ \E j \in BagToSet(jobs) : JobRelease(j)
    \/ QueryAdvance("x") \/ QueryFail("x")
    \/ \E f \in Paths : GetFileMD5("x", f)

SpecMD5 == InitMD5 /\ [][NextMD5]_vars

\* concurrent listing threads and the background goroutines
NextList ==
    \/ \E t \in Listers : ListFiles(t) \/ ListAdvance(t)
    \/ \E j \in BagToSet(jobs) : JobAcquire(j)
    \/ \E j \in BagToSet(jobs) : JobRead(j)
    \/ \E j \in BagToSet(jobs) : JobStore(j)
    \/ \E j \in BagToSet(jobs) : JobFail(j)
    \/ \E j \in BagToSet(jobs) : JobRelease(j)

SpecList == InitMD5 /\ [][NextList]_vars

\* concurrent query threads
NextQuery ==
    \/ \E t \in Queriers : QueryAdvance(t) \/ QueryFail(t)
    \/ \E t \in Queriers, f \in Paths : GetFileMD5(t, f)

SpecQuery == InitMD5 /\ [][NextQuery]_vars

\* one listing thread, the background goroutines and one progress query
NextProgress ==
    \/ ListFiles("l") \/ ListAdvance("l")
    \/ \E j \in BagToSet(jobs) : JobAcquire(j)
    \/ \E j \in BagToSet(jobs) : JobRead(j)
    \/ \E j \in BagToSet(jobs) : JobStore(j)
    \/ \E j \in BagToSet(jobs) : JobFail(j)
    \/ \E j \in BagToSet(jobs) : JobRelease(j)
    \/ \E f \in Paths : GetMD5Progress(f)

SpecProgress == InitMD5 /\ [][NextProgress]_vars

\* the background goroutines of any number of ListFiles calls, under a fair
\* scheduler
NextJobs ==
    \/ \E f \in Paths : ListFilesSchedule(f)
    \/ \E j \in BagToSet(jobs) : JobAcquire(j)
    \/ \E j \in BagToSet(jobs) : JobRead(j)
    \/ \E j \in BagToSet(jobs) : JobStore(j)
    \/ \E j \in BagToSet(jobs) : JobFail(j)
    \/ \E j \in BagToSet(jobs) : JobRelease(j)

SpecJobs == InitMD5 /\ [][NextJobs]_vars

FairJobs == SpecJobs /\ JobsFair

\* the same, with the parked senders of md5Cache.semaphore served in turn
FairPermits == FairJobs /\ PermitsFair

\* the background goroutines over files that change while they are hashed
NextGrow ==
    \/ NextJobs
    \/ \E f \in Paths, kind \in ModKinds : ModifyFile(f, kind)

SpecGrow == InitMD5 /\ [][NextGrow]_vars

\* one listing thread, one query thread and the background goroutines, over
\* files that change
NextModify ==
    \/ NextMD5
    \/ \E f \in Paths, kind \in ModKinds :
          Quiet /\ Settled(cache[f]) /\ ModifyFile(f, kind)

SpecModify == InitMD5 /\ [][NextModify]_vars

\* the permit pools under any sequence of Acquire and Release calls
InitPools == SaveIdle /\ DlIdle /\ ChunkIdle /\ Md5Idle /\ OptIdle

NextPools == \E kind \in Kinds : Acquire(kind) \/ Release(kind)

SpecPools == InitPools /\ [][NextPools]_vars

\* one copy loop at a time, over any file, with a context cancelled at any
\* moment
NextCopy ==
    \/ \E fn \in CopyFns, src \in SeqsUpTo(MaxFileLen), size \in 0..MaxFileLen,
          cancelled \in BOOLEAN : CopyBegin(fn, src, size, cancelled)
    \/ CopyCheck \/ CopyRead \/ CopyReadFail \/ CopyWrite \/ CopyWriteFail
    \/ CopyCancel

SpecCopy == InitPools /\ [][NextCopy]_vars

\* the same over a writer that may take less than it is given
NextShortWrite ==
    \/ NextCopy
    \/ \E nw \in 0..(DefaultBufferSize - 1) : CopyWriteShort(nw)

SpecShortWrite == InitPools /\ [][NextShortWrite]_vars

\* three threads in the methods of md5Cache, on the first path of the listing
NextMutex ==
    \/ \E t \in CacheThreads, op \in CacheReads \cup CacheWrites :
          CacheCall(t, op, PathSeq[1])
    \/ \E t \in CacheThreads : CacheLock(t)
    \/ \E t \in CacheThreads : CacheBody(t)
    \/ \E t \in CacheThreads : CacheUnlock(t)

SpecMutex == InitMD5 /\ [][NextMutex]_vars

\* one BatchUpload call over up to MaxBatch files
NextBatch ==
    \/ BatchUploadNone
    \/ \E r \in SaveOutcomes : BatchUploadOne(r)
    \/ \E n \in 2..MaxBatch : BatchUploadMany(n)
    \/ \E f \in 1..batch.n : WorkerAcquire(f)
    \/ \E f \in 1..batch.n, r \in SaveOutcomes : WorkerSave(f, r)
    \/ \E f \in 1..batch.n : WorkerRelease(f)
    \/ BatchClose
    \/ \E r \in SaveOutcomes : BatchCollect(r)
    \/ BatchReturn

SpecBatch == InitPools /\ [][NextBatch]_vars

FairBatch == SpecBatch /\ BatchFair

\* Process calls over up to MaxTasks tasks, with a context that may be
\* cancelled
NextProc ==
    \/ ProcessNone
    \/ \E n \in 1..MaxTasks, cancelled \in BOOLEAN : Process(n, cancelled)
    \/ ProcCancel
    \/ \E w \in 1..Len(proc.workers) : ProcWorkerTake(w)
    \/ \E w \in 1..Len(proc.workers) : ProcWorkerExit(w)
    \/ \E w \in 1..Len(proc.workers), r \in TaskOutcomes : ProcWorkerRun(w, r)
    \/ ProcClose
    \/ ProcCollect
    \/ ProcReturn

SpecProc == InitPools /\ [][NextProc]_vars

FairProc == SpecProc /\ ProcFair

\* the chat hub and its clients
NextChat ==
    \/ \E c \in Clients : HandleWebSocket(c)
    \/ \E c \in Clients : HubRegister(c)
    \/ HubLock
    \/ HubRegisterBody
    \/ \E c \in Clients : ClientClose(c)
    \/ \E c \in Clients : HubUnregister(c)
    \/ HubUnregisterBody
    \/ \E c \in Clients : ClientMessage(c)
    \/ \E type \in {"join", "leave"} : SenderSend(type)
    \/ HubBroadcast
    \/ HubRLock
    \/ \E c \in Clients : HubDeliver(c)
    \/ HubRUnlock
    \/ \E c \in Clients : ClientWrite(c)

SpecChat == InitPools /\ [][NextChat]_vars

FairChat == SpecChat /\ HubFair

\* the chat hub, its clients and a GetClientCount caller
NextHub ==
    \/ NextChat
    \/ CountRLock
    \/ CountReturn

SpecHub == InitPools /\ [][NextHub]_vars

\* concurrent uploads and downloads
NextTransfers == \E kind \in TransferKinds : TransferBegin(kind) \/ TransferEnd(kind)

SpecTransfers == InitPools /\ [][NextTransfers]_vars

\* single-file uploads under a deadline
NextUpload ==
    \/ \E data \in SeqsUpTo(MaxFileLen), h \in SaveHeaders : SaveFileWithTimeout(data, h)
    \/ UploadOpen \/ UploadWrite \/ UploadFinish \/ UploadReturn \/ UploadCancel

SpecUpload == InitPools /\ [][NextUpload]_vars

(* ------------------------------- claims ------------------------------- *)

\* C1: uploading C[0,off) with no Range header into a fresh destination and
\* then C[off,|C|) with the header "bytes=off-" leaves the destination equal
\* to C, which is what one upload of C into a fresh destination leaves.
C1_ResumeRoundTrip ==
    (/\ Len(saveLog) = 2
     /\ saveLog[1].hdr = <<>>
     /\ saveLog[2].hdr = ResumeHeader(Len(saveLog[1].data)))
    => /\ dest = saveLog[1].data \o saveLog[2].data
       /\ dest = SaveFileResult(NoFile, saveLog[1].data \o saveLog[2].data, <<>>).file

C1_Witness ==
    /\ Len(saveLog) = 2
    /\ saveLog[1].hdr = <<>>
    /\ saveLog[2].hdr = ResumeHeader(Len(saveLog[1].data))
    /\ saveLog[1].data = <<1>>
    /\ saveLog[2].data = <<2, 1>>
    /\ dest = <<1, 2, 1>>

\* C2: when the chunk files 0..N-2 are in the staging directory (saved by
\* earlier calls, in any order) and the call for index N-1 declares the MD5 of
\* their concatenation in ascending index order followed by its own bytes,
\* that call returns nil and the destination is that concatenation.
C2_ChunkRoundTrip ==
    \A id \in Callers :
        LET c == calls[id]
        IN  (c.fresh /\ c.index = c.total - 1 /\ c.had /\ c.md5 = Digest(c.expect))
            => (c.ret = "nil" /\ fs.dest = c.expect)

C2_Witness ==
    \E id \in Callers :
        LET c == calls[id]
        IN  /\ c.fresh /\ c.index = c.total - 1 /\ c.had /\ c.md5 = Digest(c.expect)
            /\ c.total = 2
            /\ c.expect = <<2, 1>>
            /\ fs.dest = <<2, 1>>
            /\ c.ret = "nil"

\* C3: under any interleaving of chunk uploads of one file name, a last-index
\* SaveFileChunk that returns nil leaves the destination in place with the
\* declared MD5, and one whose computed MD5 differs from the declared one
\* returns the integrity error and leaves no destination.
C3_IntegrityGate ==
    \A id \in Callers :
        LET c == calls[id]
        IN  (c.fresh /\ c.index = c.total - 1)
            => /\ c.ret = "nil" => (fs.dest # NoFile /\ Digest(fs.dest) = c.md5)
               /\ (c.sum # <<>> /\ c.sum # c.md5)
                    => (c.ret = "integrity" /\ fs.dest = NoFile)

\* C4: GetMD5FromCache(path, modTime, size) returns a hit only when the entry
\* of path exists, is in state Calculated (Calculated set, Calculating clear,
\* no Error) and stores the modification time and the size of the arguments;
\* an entry that is Calculating, or one that holds an Error, yields a miss.
C4_CacheHit ==
    \A f \in Paths, modTime \in 0..2, size \in 0..(LargeFileSize + 2) :
        LET entry == cache[f]
            r == GetMD5FromCache(cache, f, modTime, size)
        IN  /\ r.ok => /\ entry.exists
                       /\ entry.Calculated /\ ~entry.Calculating /\ entry.Error = ""
                       /\ entry.ModTime = modTime /\ entry.Size = size
            /\ (entry.exists /\ (entry.Calculating \/ entry.Error # "")) => ~r.ok

\* C5: a GetFileMD5 call made, and run to its return, while a background
\* goroutine is hashing the same path returns the "MD5 calculation in
\* progress" status with a progress between 0 and 1.
C5_QueryInProgress ==
    \A t \in Queriers :
        LET q == queriers[t]
        IN  (q.fresh /\ q.bg)
            => /\ q.status = "in_progress"
               /\ 0 <= q.progress[1] /\ q.progress[1] <= q.progress[2]

\* C6: at most one checksum computation, background or synchronous, is in
\* flight for a path at any time.
C6_NoDuplicateComputation == \A f \in Paths : Hashing(f) <= 1

\* C7: a request with Range "bytes=start-end", 0 <= start <= end < fileSize,
\* that is not cancelled gets status 206, Content-Range "bytes
\* start-end/fileSize", Content-Length end-start+1 and exactly the bytes
\* [start, end] of the file.
C7_RangeDownload ==
    \A s \in 0..MaxFileLen, e \in 0..MaxFileLen :
        (/\ resp.op = "file" /\ resp.cancel = -1
         /\ dlFile # NoFile /\ s <= e /\ e < Len(dlFile)
         /\ resp.hdr = RangeHeader(s, e))
        => /\ resp.status = 206
           /\ resp.contentRange = ContentRange(s, e, Len(dlFile))
           /\ resp.contentLength = Itoa(e - s + 1)
           /\ resp.body = SubSeq(dlFile, s + 1, e + 1)

\* C8: a chunk request (chunkIndex i, chunkSize n) with i*n < fileSize that is
\* not cancelled gets exactly the bytes [i*n, min(i*n + n - 1, fileSize - 1)]
\* of the file, for every chunk index.
C8_ChunkDownload ==
    (/\ resp.op = "chunk" /\ resp.cancel = -1
     /\ dlFile # NoFile /\ resp.idx * resp.size < Len(dlFile))
    => LET start == resp.idx * resp.size
           end == Min(start + resp.size - 1, Len(dlFile) - 1)
       IN  /\ resp.status = 206
           /\ resp.contentRange = ContentRange(start, end, Len(dlFile))
           /\ resp.body = SubSeq(dlFile, start + 1, end + 1)

\* C9: ListFiles waits for nothing, and a ListFiles call made after the
\* background computation of a file has completed (the goroutine that ended
\* last stored its MD5, none is left waiting or hashing, the file is not
\* modified) lists the file with that MD5.
C9_LaterListing ==
    \A t \in Listers :
        LET l == listers[t]
        IN  /\ l.pc # "done" => ListReady(l, cache, sem)
            /\ l.fresh => \A f \in l.after : l.out[f] = Digest(files[f].data)

\* C10: the number of files being hashed at the same time - by the goroutines
\* of ListFiles, by GetFileMD5 calls and by the verification of SaveFileChunk -
\* is at most MD5MaxConcurrent.
C10_ConcurrencyBound ==
    CountJobs(jobs, {j \in BagToSet(jobs) : JobIsHashing(j)})
        + Cardinality({t \in Queriers : queriers[t].pc = "hash"})
        + Cardinality({id \in Callers : calls[id].pc = "md5"})
    <= MD5MaxConcurrent


\* C11: for each kind the permits held never exceed the ceiling (100, 200,
\* 3); an Acquire issued at the ceiling parks its caller, and a parked caller
\* proceeds only by a Release; a Release with permits held frees exactly one
\* (the held count drops by one, or one parked caller takes the permit); a
\* call on one pool leaves the pools of the other kinds unchanged.
C11_PermitPools ==
    /\ [](\A k \in Kinds :
            /\ pools[k].held <= Ceiling(k)
            /\ pools[k].senders > 0 => pools[k].held = Ceiling(k))
    /\ [][\A k \in Kinds :
            /\ pools'[k] # pools[k] => \A j \in Kinds \ {k} : pools'[j] = pools[j]
            /\ pools'[k].senders < pools[k].senders
                => /\ pools'[k].senders = pools[k].senders - 1
                   /\ pools'[k].held = pools[k].held
            /\ pools'[k].held < pools[k].held
                => /\ pools'[k].held = pools[k].held - 1
                   /\ pools'[k].senders = pools[k].senders
            /\ (pools[k].held = Ceiling(k) /\ pools'[k].held # pools[k].held)
                => pools'[k].held < pools[k].held]_vars

C11_Witness ==
    /\ pools["upload"].held = MaxConcurrentUploads
    /\ pools["upload"].senders = 1
    /\ pools["download"].held = 1
    /\ pools["checksum"].held = MD5MaxConcurrent
    /\ pools["checksum"].senders = 0

\* C12: every executing upload and download holds a transfer slot of its kind,
\* so that at most 100 uploads and at most 200 downloads execute at once.
C12_TransferSlots ==
    \A k \in TransferKinds :
        /\ transfers[k] <= pools[k].held
        /\ transfers[k] <= Ceiling(k)

\* the bytes a file holds, none when it does not exist
BytesOf(f) == IF f = NoFile THEN <<>> ELSE f

\* C13: when SaveFileWithTimeout has returned the cancellation error, the
\* destination file stays as it was at the moment of the return: no further
\* byte of that upload is written to it.
C13_CancelledUploadStops ==
    (upload.call = "returned" /\ upload.ret = "cancelled")
        => BytesOf(dest) = BytesOf(upload.atReturn)

\* C14: a request with Range "bytes=start-" (no end), or with an end at or
\* past the file size, for a start inside the file and not cancelled, is
\* served the window [start, fileSize-1]: status 206, Content-Range "bytes
\* start-(fileSize-1)/fileSize", Content-Length fileSize-start and exactly
\* those bytes.
C14_OpenEndedRange ==
    \A s \in 0..MaxFileLen :
        (/\ resp.op = "file" /\ resp.cancel = -1
         /\ dlFile # NoFile /\ s < Len(dlFile)
         /\ \/ resp.hdr = ResumeHeader(s)
            \/ \E e \in 0..MaxFileLen : e >= Len(dlFile) /\ resp.hdr = RangeHeader(s, e))
        => /\ resp.status = 206
           /\ resp.contentRange = ContentRange(s, Len(dlFile) - 1, Len(dlFile))
           /\ resp.contentLength = Itoa(Len(dlFile) - s)
           /\ resp.body = SubSeq(dlFile, s + 1, Len(dlFile))

\* C15: a request for an existing file whose Range header is malformed, or is
\* unsatisfiable (start > end, or start >= fileSize), gets an error from
\* DownloadFile before any I/O: the file is not opened, no status and no
\* header is written, no byte is streamed, and the process does not crash.
C15_BadRangeRejected ==
    (/\ resp.op = "file" /\ dlFile # NoFile
     /\ \/ resp.hdr \in MalformedHeaders
        \/ \E s \in 0..MaxFileLen, e \in 0..MaxFileLen :
              /\ resp.hdr = RangeHeader(s, e)
              /\ (s > e \/ s >= Len(dlFile)))
    => /\ resp.err \notin {"nil", "panic"}
       /\ ~resp.opened
       /\ resp.status = 0
       /\ resp.contentRange = <<>> /\ resp.contentLength = <<>>
       /\ resp.body = <<>>

\* the smallest index below n with no chunk file of its exact name, n if none
RECURSIVE FirstMissing(_, _, _)
FirstMissing(chunks, k, n) ==
    IF k >= n \/ ~\E e \in chunks : e.name = ChunkName(k) THEN k
    ELSE FirstMissing(chunks, k + 1, n)

C17_MergeTrigger ==
    [][LET c == calls'["a"]
       IN  c.fresh
           => /\ c.merged <=> (c.index = c.total - 1)
              /\ (c.index # c.total - 1)
                    => /\ c.ret = "nil"
                       /\ fs'.dest = fs.dest
                       /\ \E data \in ChunkData :
                            fs'.chunks = WriteChunk(fs.chunks, ChunkName(c.index), data)
                       /\ cache' = cache]_vars

\* a call for an index that is not the last has completed the chunk set that
\* an earlier failed merge left behind with an empty destination
C17_Witness ==
    LET c == calls["a"]
    IN  /\ c.fresh /\ c.index # c.total - 1 /\ ~c.merged
        /\ HasExact(fs.chunks, c.total)
        /\ fs.dest = <<>>

\* C18: when a whole-file, range or chunk download fails and the request
\* context is cancelled, no error response is written, and a copy the
\* cancellation met has stopped at the iteration it was seen in; an error
\* response is written only when the request context is live and no response
\* header was written.
C18_SilentDisconnect ==
    (resp.handler # "none")
    => /\ (resp.err # "nil" /\ CtxErr(resp)) => resp.errStatus = 0
       /\ (resp.err = "canceled" /\ resp.cancel >= 0)
              => Len(resp.body) <= resp.cancel * DefaultBufferSize
       /\ resp.errStatus # 0 => (~CtxErr(resp) /\ ~Written(resp))

\* C19: the second result of GetMD5Progress / GetFileMD5Progress tells whether
\* the checksum computation of the path has completed: FALSE while a
\* computation of the path is running, TRUE once it has finished.
C19_ProgressCompleted ==
    seen.called
    => /\ seen.running => ~seen.second
       /\ seen.finished => seen.second

\* the goroutines that hold a checksum permit
JobsPermitted ==
    CountJobs(jobs, {j \in BagToSet(jobs) : j.pc \in {"hash", "release"}})

\* C20: a ListFiles call whose GetProgress finds no cache entry for the path
\* goes on to SetCalculating; that step leaves the entry Calculating, not
\* Calculated, with progress 0 and the (modification time, size) of the file,
\* and starts exactly one goroutine for the path, which waits for a permit:
\* the goroutines that hash are the ones that hold a checksum permit.
C20_UncachedToCalculating ==
    /\ [](sem = JobsPermitted)
    /\ [][\A t \in Listers :
            LET l == listers[t]
            IN  IF l.pc \notin {"progress", "set"} \/ listers'[t] = l THEN TRUE
                ELSE LET path == PathSeq[l.k]
                     IN  IF l.pc = "progress"
                         THEN ~cache[path].exists => listers'[t].pc = "set"
                         ELSE /\ cache'[path].exists
                              /\ cache'[path].Calculating /\ ~cache'[path].Calculated
                              /\ cache'[path].Progress[1] = 0
                              /\ cache'[path].ModTime = ModTimeOf(files[path])
                              /\ cache'[path].Size = SizeOf(files[path])
                              /\ \E j \in BagToSet(jobs') :
                                    /\ j.path = path /\ j.pc = "wait"
                                    /\ jobs' = jobs (+) SetToBag({j})]_vars

\* a ListFiles call has met "q" with no cache entry: the entry is Calculating
\* at progress 0 and the one goroutine of "q" waits for a permit, while the
\* goroutine of "p" is hashing with the only permit taken
C20_Witness ==
    /\ cache["q"].exists /\ cache["q"].Calculating /\ cache["q"].Progress[1] = 0
    /\ JobsPending("q") = 1 /\ JobsHashing("q") = 0
    /\ JobsHashing("p") = 1 /\ sem = 1
    /\ completed = {}

Stale(entry, modTime, size) ==
    entry.Calculated /\ (entry.ModTime # modTime \/ entry.Size # size)

\* the MD5 of the bytes a path held before it changed
OldMD5(filePath) == Digest(StoredFiles[filePath].data)

\* C22: fingerprint invalidation.  Once the modification time or the size of
\* a file has changed after its entry became Calculated, a GetFileMD5 call
\* that finds the entry under the old fingerprint computes the hash anew (it
\* returns the new MD5, or the I/O error of its own computation, never the
\* outcome of an earlier computation); a ListFiles call that finds it so
\* does not take the entry as a hit; and neither call returns the hash of
\* the old bytes for the new fingerprint.
C22_FingerprintInvalidation ==
    /\ [](\A t \in Queriers :
            LET q == queriers[t]
            IN  (q.pc = "done" /\ q.fresh) =>
                    /\ Stale(cache[q.path], q.modTime, q.size) => q.status = "ioerr"
                    /\ (/\ q.status = "md5"
                        /\ files[q.path] # StoredFiles[q.path]
                        /\ q.modTime = ModTimeOf(files[q.path])
                        /\ q.size = SizeOf(files[q.path])) => q.md5 # OldMD5(q.path))
    /\ [][\A t \in Listers :
            LET l == listers[t]
                f == PathSeq[l.k]
            IN  (l.pc = "get" /\ listers'[t] # l /\ Stale(cache[f], l.modTime, l.size)) =>
                    listers'[t].pc = "progress"]_vars

\* the state Errored of an entry: its computation failed and no MD5 is stored
Errored(entry) == entry.Error # "" /\ ~entry.Calculating /\ ~entry.Calculated

\* C23: an Errored entry does not retry by itself.  A ListFiles call that
\* reads an Errored entry stored under the fingerprint the file still has
\* does not go on to SetCalculating and a new goroutine, and a GetFileMD5
\* call that reads it returns the stored error and leaves the entry as it is.
C23_ErroredNoRetry ==
    /\ [][\A t \in Listers :
            LET l == listers[t]
                f == PathSeq[l.k]
            IN  (/\ l.pc = "progress"
                 /\ listers'[t] # l
                 /\ Errored(cache[f])
                 /\ cache[f].ModTime = l.modTime /\ cache[f].Size = l.size
                 /\ l.modTime = ModTimeOf(files[f]) /\ l.size = SizeOf(files[f])) =>
                    listers'[t].pc # "set"]_vars
    /\ [][\A t \in Queriers :
            LET q == queriers[t]
            IN  (/\ q.pc = "progress"
                 /\ queriers'[t] # q
                 /\ Errored(cache[q.path])) =>
                    /\ queriers'[t].pc = "done"
                    /\ queriers'[t].status = "failed"
                    /\ cache' = cache]_vars

\* C24: recovery from Errored.  A GetFileMD5 call made after the fingerprint
\* of a file changed does not return the error stored under the old
\* fingerprint: a call that returns "MD5 calculation failed" found the
\* Errored entry under the fingerprint the call itself observed.
C24_ErroredRecovery ==
    \A t \in Queriers :
        LET q == queriers[t]
        IN  (q.pc = "done" /\ q.fresh /\ q.status = "failed" /\ Errored(cache[q.path])) =>
                cache[q.path].ModTime = q.modTime /\ cache[q.path].Size = q.size

JobsAt(pc) == CountJobs(jobs, {j \in BagToSet(jobs) : j.pc = pc})

\* C26: permits are released unconditionally.  The permits taken are those
\* of the goroutines between the send on md5Cache.semaphore and the deferred
\* receive, so none is taken when no such goroutine is left; a goroutine
\* whose computation ends, with an MD5 or with an error, goes on to the
\* deferred receive holding its permit, and the receive gives back exactly
\* that one permit as the goroutine ends; and a goroutine that waits for a
\* permit obtains one in the end.
C26_PermitsReleased ==
    /\ [](sem = JobsPermitted)
    /\ [](JobsAt("hash") + JobsAt("release") = 0 => sem = 0)
    /\ [][/\ (JobsAt("hash")' < JobsAt("hash")) =>
                 (JobsAt("release")' = JobsAt("release") + 1 /\ sem' = sem)
          /\ (JobsAt("release")' < JobsAt("release")) =>
                 (/\ JobsAt("release")' = JobsAt("release") - 1
                  /\ sem' = sem - 1
                  /\ BagCardinality(jobs') = BagCardinality(jobs) - 1)
          /\ (sem' < sem) => (JobsAt("release")' < JobsAt("release"))]_vars
    /\ \A j \in JobsWaiting : BagIn(j, jobs) ~> ~BagIn(j, jobs)
    /\ \A j \in JobsRunning : BagIn(j, jobs) ~> ~BagIn(j, jobs)

\* every permit is taken, a goroutine waits for one, and a goroutine whose
\* computation has ended is about to give its permit back
C26_Witness ==
    /\ sem = MD5MaxConcurrent
    /\ JobsAt("wait") > 0
    /\ BagIn(Releasing, jobs)

C28_CleanupBeforeCheck ==
    /\ [](\A id \in Callers :
            LET c == calls[id]
            IN  (c.pc = "done" /\ c.fresh /\ c.merged /\ c.ret \in {"nil", "integrity"}) =>
                    /\ fs.chunks = {} /\ ~fs.dir
                    /\ c.ret = "integrity" => fs.dest = NoFile)
    /\ [][\A id \in Callers :
            LET c == calls[id]
                d == calls'[id]
            IN  /\ (d.pc = "md5" /\ c.pc # "md5") =>
                        (/\ c.pc = "cleanup" /\ c.i = c.total
                         /\ fs'.chunks = {} /\ ~fs'.dir)
                /\ (d.pc = "check" /\ c.pc # "check") => c.pc = "md5"]_vars

\* a merge has ended in the integrity error: the destination is removed and
\* the staging directory was deleted before the checksum was compared
C28_Witness ==
    \E id \in Callers :
        /\ calls[id].pc = "done" /\ calls[id].fresh /\ calls[id].merged
        /\ calls[id].ret = "integrity" /\ calls[id].total > 1
        /\ fs.dest = NoFile /\ fs.chunks = {}

\* a progress <<bytesRead, fileSize>> as a fraction within [0, 1]
InUnit(progress) == 0 <= progress[1] /\ progress[1] <= progress[2]

\* the fraction a is at most the fraction b
FractionLeq(a, b) == a[1] * b[2] <= b[1] * a[2]

\* C29: progress bounds.  The progress of every cache entry lies in [0, 1],
\* also when the file changes while it is hashed; an entry becomes
\* Calculating with progress 0, and while it stays Calculating its progress
\* never decreases.
C29_ProgressBounds ==
    /\ [](\A f \in Paths : InUnit(cache[f].Progress))
    /\ [][\A f \in Paths :
            /\ (cache'[f].Calculating /\ ~cache[f].Calculating) =>
                    cache'[f].Progress[1] = 0
            /\ (cache'[f].Calculating /\ cache[f].Calculating) =>
                    FractionLeq(cache[f].Progress, cache'[f].Progress)]_vars

\* the threads that are inside the critical section of a method
InSection(t) == mutex[t].pc \in {"access", "unlock"}

\* C30: lock discipline of the checksum cache.  A thread that is in the body
\* of a method of MD5Cache holds mc.mutex, in exclusive mode when the method
\* inserts or changes an entry; a thread that holds it in exclusive mode is
\* the only holder; and the cache changes only in a step of a thread that
\* holds the lock in exclusive mode.
C30_LockDiscipline ==
    /\ [](\A t \in CacheThreads :
            /\ InSection(t) => mutex[t].held \in {"shared", "exclusive"}
            /\ (InSection(t) /\ mutex[t].op \in CacheWrites) =>
                    mutex[t].held = "exclusive"
            /\ mutex[t].held = "exclusive" =>
                    \A u \in CacheThreads \ {t} : mutex[u].held = "none" /\ ~InSection(u))
    /\ [][cache' # cache =>
            \E t \in CacheThreads :
                /\ mutex[t].pc = "access" /\ mutex[t].held = "exclusive"
                /\ mutex'[t].pc = "unlock"]_vars

\* two readers are in their critical sections together while a writer waits
\* for the lock
C30_Witness ==
    \E t, u, w \in CacheThreads :
        /\ t # u
        /\ InSection(t) /\ mutex[t].held = "shared"
        /\ InSection(u) /\ mutex[u].held = "shared"
        /\ mutex[w].pc = "lock" /\ mutex[w].op \in CacheWrites

\* C31: short writes are fatal.  A copy loop goes on to its next
\* cancellation check and Read, or returns nil, only when every byte it has
\* read was written: a Write that takes fewer bytes than were read ends the
\* loop with an error.
C31_ShortWriteFatal ==
    (copy.pc \in {"check", "read"} \/ (copy.pc = "done" /\ copy.ret = "nil"))
        => copy.written = copy.pos

\* the goroutines of the batch that are inside SaveFile
Saving == Cardinality({f \in 1..batch.n : batch.workers[f].pc = "save"})

\* C32: BatchUpload accounting.  A BatchUpload call returns; when it has
\* returned successCount + errorCount = len(files), len(errors) =
\* errorCount and SaveFile was called exactly once for each file; no file
\* is ever saved twice; and at most min(maxConcurrent, len(files)) SaveFile
\* calls run at the same time.
C32_BatchAccounting ==
    /\ [](batch.pc = "returned" =>
            /\ batch.successCount + batch.errorCount = batch.n
            /\ batch.errors = batch.errorCount
            /\ \A f \in 1..batch.n : batch.workers[f].calls = 1)
    /\ [](\A f \in 1..batch.n : batch.workers[f].calls <= 1)
    /\ [](Saving <= Min(BatchMaxConcurrent, batch.n))
    /\ (batch.pc = "collect") ~> (batch.pc = "returned")

\* the gate is full while another goroutine waits at it and a result is
\* already collected
C32_Witness ==
    /\ batch.pc = "collect"
    /\ Saving = BatchMaxConcurrent
    /\ \E f \in 1..batch.n : batch.workers[f].pc = "wait"
    /\ batch.successCount + batch.errorCount > 0

\* the three states of an entry
IsCalculating(entry) == entry.Calculating /\ ~entry.Calculated /\ entry.Error = ""

IsCalculated(entry) == entry.Calculated /\ ~entry.Calculating /\ entry.Error = ""

\* C33: cache entry state exclusivity.  Every entry of the cache is in
\* exactly one of the states Calculating, Calculated and Errored.
C33_EntryStates ==
    \A f \in Paths :
        cache[f].exists =>
            \/ IsCalculating(cache[f])
            \/ IsCalculated(cache[f])
            \/ Errored(cache[f])

\* one listing thread and the background goroutines, over files that are
\* written at any moment
NextWrite ==
    \/ ListFiles("l") \/ ListAdvance("l")
    \/ \E j \in BagToSet(jobs) : JobAcquire(j)
    \/ \E j \in BagToSet(jobs) : JobRead(j)
    \/ \E j \in BagToSet(jobs) : JobStore(j)
    \/ \E j \in BagToSet(jobs) : JobFail(j)
    \/ \E j \in BagToSet(jobs) : JobRelease(j)
    \/ \E f \in Paths, kind \in ModKinds : ModifyFile(f, kind)

SpecWrite == InitMD5 /\ [][NextWrite]_vars

\* the contents a file has had: the stored one and, after a write, the
\* current one
ContentsOf(f) == {StoredFiles[f].data, files[f].data}

\* C34: cache coherence.  Whenever a listing or a query returns a cached
\* checksum for a file, that checksum is the MD5 of the file's content: of
\* the current content, or at least of the content the file had when the
\* fingerprint was captured.
C34_CacheCoherence ==
    /\ \A t \in Listers :
        (listers[t].pc = "done" /\ listers[t].fresh) =>
            \A f \in Paths :
                listers[t].out[f] # NoMD5 =>
                    \E content \in ContentsOf(f) : listers[t].out[f] = Digest(content)
    /\ \A t \in Queriers :
        (queriers[t].pc = "done" /\ queriers[t].fresh /\ queriers[t].status = "md5") =>
            \E content \in ContentsOf(queriers[t].path) : queriers[t].md5 = Digest(content)

\* the size of the destination, 0 when it does not exist
DestSize == IF dest = NoFile THEN 0 ELSE Len(dest)

Staged(chunks, k) == \E e \in chunks : e.name = ChunkName(k)

\* SaveFileChunk for every index k..total-2 that is not staged, in ascending
\* order, chunk k carrying d[k]: the file system afterwards
RECURSIVE SaveMissing(_, _, _, _)
SaveMissing(f, k, total, d) ==
    IF k > total - 2 THEN f
    ELSE SaveMissing(IF Staged(f.chunks, k) THEN f
                     ELSE RunCall(f, "a", BeginCall(f, k, total, <<>>, d[k])).fs,
                     k + 1, total, d)

\* the retry of a merge: the missing chunks, then the last index once more
\* with the MD5 of the whole content
RetryMerge(f, total, d, data) ==
    LET g == SaveMissing(f, 0, total, d)
        content == ExactConcat(g.chunks, total - 1) \o data
    IN  RunCall(g, "a", BeginCall(g, total - 1, total, Digest(content), data))

\* the content of the upload: the chunks staged before the merge failed, the
\* chunks d of the other indexes, and the last chunk
RECURSIVE FullContent(_, _, _, _)
FullContent(chunks, n, d, data) ==
    IF n = 0 THEN data
    ELSE LET k == n - 1
         IN  FullContent(chunks, k, d,
                         (IF Staged(chunks, k) THEN ChunkBytes(chunks, ChunkName(k))
                          ELSE d[k]) \o data)

C37_ProcessCompletes ==
    /\ [](proc.pc = "collect" => Len(proc.workers) = Min(ProcWorkerCount, proc.n))
    /\ [](\A t \in 1..proc.n : proc.runs[t] <= 1)
    /\ []((proc.pc = "returned" /\ proc.n > 0) =>
            /\ \A w \in 1..Len(proc.workers) : proc.workers[w].pc = "exit"
            /\ Len(proc.errors) <= proc.n
            /\ Len(proc.errors) = Cardinality({t \in 1..proc.n : proc.runs[t] = 1})
            /\ ~proc.cancelled =>
                    /\ Len(proc.errors) = proc.n
                    /\ \A t \in 1..proc.n : proc.runs[t] = 1)
    /\ (proc.pc = "collect") ~> (proc.pc = "returned")

\* a call with three tasks and a live context has returned the three
\* results, one of them an error, from two workers
C37_Witness ==
    /\ proc.pc = "returned"
    /\ proc.n = 3
    /\ ~proc.cancelled
    /\ Len(proc.workers) = 2
    /\ proc.errors = <<"nil", "err", "nil">>

\* C38: the chat hub never blocks on a slow client.  In the broadcast loop a
\* client whose send buffer is full has its channel closed and is removed
\* from the client set, a client with room gets the message, every client of
\* the set is visited, no other buffer is touched, and the hub always comes
\* back to its select.
C38_HubNeverBlocks ==
    /\ [][/\ (hub.pc = "broadcast" /\ hub'.pc = "range") => hub'.todo = hub.clients
          /\ \A c \in Clients :
                (hub.pc = "range" /\ c \in hub.todo /\ c \notin hub'.todo) =>
                    /\ IF Len(hub.send[c]) = SendBufferSize
                       THEN /\ hub'.closes[c] = hub.closes[c] + 1
                            /\ c \notin hub'.clients
                            /\ hub'.send[c] = hub.send[c]
                       ELSE /\ hub'.send[c] = Append(hub.send[c], hub.message)
                            /\ hub'.closes[c] = hub.closes[c]
                            /\ c \in hub'.clients
                    /\ \A d \in Clients \ {c} :
                            /\ hub'.send[d] = hub.send[d]
                            /\ hub'.closes[d] = hub.closes[d]
                            /\ (d \in hub'.clients) = (d \in hub.clients)
                    /\ hub'.pc = "range"]_vars
    /\ [](hub.panic = "none")
    /\ (hub.pc # "select") ~> (hub.pc = "select")

\* a broadcast has dropped one client, whose buffer is still full, has given
\* the message to the other one, and the hub is at its select again
C38_Witness ==
    \E c \in Clients, d \in Clients :
        /\ c # d
        /\ c \in hub.dropped /\ c \notin hub.clients
        /\ Len(hub.send[c]) = SendBufferSize
        /\ d \in hub.clients /\ hub.send[d] # <<>>
        /\ hub.pc = "select"

\* C39: chat client channel safety.  Each client's send channel is closed at
\* most once, the hub never sends on a closed channel (every client of the
\* set has an open channel, and no run-time panic occurs), and the unregister
\* of a client the broadcast dropped closes nothing.
C39_ChannelSafety ==
    /\ [](\A c \in Clients : hub.closes[c] <= 1)
    /\ [](\A c \in hub.clients : hub.closes[c] = 0)
    /\ [](hub.panic # "send on closed channel" /\ hub.panic # "close of closed channel")
    /\ [][/\ \A c \in Clients :
                Len(hub'.send[c]) > Len(hub.send[c]) => hub.closes[c] = 0
          /\ (hub.pc = "unregisterLocked" /\ hub.cur \in hub.dropped) =>
                hub'.closes = hub.closes]_vars

\* a client the broadcast dropped has unregistered since, and its channel was
\* closed once
C39_Witness ==
    \E c \in Clients :
        /\ c \in hub.dropped
        /\ hub.conn[c] = "gone"
        /\ hub.pc = "select"
        /\ hub.closes[c] = 1

\* C40: chat hub lock discipline.  The client set changes only in a step of
\* the hub that holds the hub's lock exclusively, so never while a
\* GetClientCount call holds the lock shared.
C40_HubLockDiscipline ==
    [][hub'.clients # hub.clients =>
          /\ hub.writer
          /\ hub.readers = {}]_vars

=============================================================================
